---- MODULE Spec2Model ----
(***************************************************************************)
(* Model of the particle scene manager (class SceneManager) and of the     *)
(* effects it hosts, with the gesture detection of the Controls component  *)
(* that writes the gesture signal.                                         *)
(*                                                                         *)
(* Units.  Heights (launchHeight, particle y, heart targets) are integers  *)
(* in steps of 0.5, so 1.5 is 3, 60 is 120 and -100 is -200.  Velocities   *)
(* are integers in steps of 0.02, so the gravity decrement 0.02 is 1.      *)
(* Every floating point product is rounded to the nearest step (Round).    *)
(* The rain, text and cat-cake effects keep y in steps of 0.1 (100 is      *)
(* 1000), their fall speeds in steps of 0.02 and config.speed in steps of  *)
(* 0.1, the step of the speed slider.                                      *)
(*                                                                         *)
(* Objects.  A point cloud (THREE.Points with its geometry and material)   *)
(* is an index into the sequence clouds; 0 is the null reference.  Of a    *)
(* particle buffer the model keeps the array lengths and, for the tracked  *)
(* particles, the y component and the y velocity: the only components a    *)
(* condition of the code reads.  The particles of an effect do not         *)
(* interact, each one runs the same loop body with its own random draws.   *)
(***************************************************************************)
EXTENDS Integers, Sequences, FiniteSets, TLC

VARIABLES
  scene,              \* children of THREE.Scene: set of point cloud ids
  particles,          \* this.particles: point cloud id or Null
  updateCallback,     \* this.updateCallback: closure record or NoCallback
  handStateIsActive,  \* this.handStateIsActive
  audioContext,       \* this.audioContext: audio context id or Null
  isPlayingAudio,     \* this.isPlayingAudio
  animationId,        \* this.animationId
  rafPending,         \* frame scheduler: handles of the requested frames
  resizeListener,     \* window holds handleResize as 'resize' listener
  windowSize,         \* window.innerWidth x innerHeight (an index)
  cameraAspect,       \* camera.aspect, as the window size it was set from
  rendererSize,       \* renderer size, as the window size it was set from
  rendererDisposed,   \* renderer.dispose() has been called
  canvasInContainer,  \* container.contains(renderer.domElement)
  clouds,             \* every point cloud ever created, by id
  audioOpen,          \* audio contexts created and not closed
  timers,             \* contexts whose song-end timeout is pending
  phase,              \* closure variable of initHeartFirework
  launchHeight,       \* closure variable of initHeartFirework
  isCatDetected,      \* closure variable of initCatCake
  posY,               \* y of the tracked particles (position array, i3+1)
  velY,               \* explosionVelocities, y component, tracked particles
  heartY,             \* heartPositions, y component, tracked particles
  speed,              \* config.speed as the closure captured it
  velocities,         \* velocities of initRain and initCatCake
  galaxyY,            \* galaxyPositions, y component, tracked particles
  textY,              \* textPositions, y component, tracked particles
  cakeY,              \* cakePositions, y component, tracked particles
  flameStartIndex,    \* tracked particles before the flame range
  activeEffect,       \* App state: the effect the page shows
  hooks,              \* runs of the vision effect hook of Controls
  handLandmarkerRef,  \* handLandmarkerRef.current: creating run or Null
  objectDetectorRef,  \* objectDetectorRef.current: creating run or Null
  videoMounted,       \* videoRef.current is an element
  srcObject,          \* videoRef.current.srcObject: attaching run or Null
  listeners,          \* runs whose predictWebcam listens for 'loadeddata'
  loading,            \* the video element has a stream still to load
  writers,            \* history: runs that wrote the signal in the last step
  sample,             \* inputs of the function under test
  outcome,            \* its result
  drawn,              \* what the last renderer.render call drew
  lastTick,           \* history: what the last animate call did
  lastWritten,        \* history: argument of the last updateHandState call
  streak,             \* history: consecutive firework ticks that read true
  respawned,          \* history: particles respawned by the last tick
  placed,             \* history: where the last tick reset flame particles
  written,            \* history: the writes of the last tick to the positions
  pose,               \* rotation and scale of the cloud of a kinetic effect
  grid,               \* x * 0.1 and z * 0.1 of the tracked wave particles
  twin                \* a second run of the kinetic effect, same tick times

vars == <<scene, particles, updateCallback, handStateIsActive, audioContext,
          isPlayingAudio, animationId, rafPending, resizeListener, windowSize,
          cameraAspect, rendererSize, rendererDisposed, canvasInContainer,
          clouds, audioOpen, timers, phase, launchHeight, isCatDetected,
          posY, velY, heartY, drawn, lastTick, lastWritten, streak, respawned, placed,
          speed, velocities, galaxyY, textY, cakeY, flameStartIndex,
          activeEffect, hooks, handLandmarkerRef, objectDetectorRef,
          videoMounted, srcObject, listeners, loading, writers,
          sample, outcome, pose, grid, twin, written>>

managerVars == <<scene, particles, updateCallback, audioContext,
                 isPlayingAudio, clouds, audioOpen, timers>>
closureVars == <<phase, launchHeight, isCatDetected, posY, velY, heartY,
                 speed, velocities, galaxyY, textY, cakeY, flameStartIndex,
                 pose, grid>>
controlsVars == <<activeEffect, hooks, handLandmarkerRef, objectDetectorRef,
                  videoMounted, srcObject, listeners, loading, writers>>
pureVars == <<sample, outcome, twin>>
frameVars == <<handStateIsActive, animationId, rafPending, drawn, lastTick,
               lastWritten, streak, respawned, placed, written>>
hostVars == <<resizeListener, windowSize, cameraAspect, rendererSize,
              rendererDisposed, canvasInContainer>>

----------------------------------------------------------------------------
(* Bounds of the model *)

MaxCount == 2        \* config.count ranges over 1..MaxCount
MaxClouds == 2       \* point clouds created in one run
MaxAudio == 2        \* audio contexts created in one run
MaxTimers == 2       \* song-end timeouts pending at once
MaxWindow == 2       \* distinct window sizes
MaxStreak == 43      \* the history counter streak saturates here
MaxValue == 40       \* smoothed values range over -MaxValue..MaxValue
MaxHooks == 2        \* runs of the vision effect hook in one run

(* Program constants *)

Null == 0
IDLE == 0
LAUNCH == 1
EXPLODE == 2
LaunchStep == 3            \* launchHeight += 1.5
LaunchThreshold == 120     \* launchHeight > 60
LowerBound == -200         \* pos[i3 + 1] < -100
RespawnHeight == 120       \* 60 + jitter
Gravity == 1               \* explosionVelocities[i3 + 1] -= 0.02
DampPercent == 98          \* *= 0.98
HeartBlend == 8            \* * 0.08
LaunchBlend == 15          \* * 0.15
TextBlend == 8             \* * 0.08 in both branches of the text morph
CakeBlend == 5             \* * 0.05 in cake mode
RainLower == -1000         \* positions[i3 + 1] < -100
RainUpper == 1000          \* positions[i3 + 1] = 100
FlameLimit == 280          \* pos[i3+1] > 28
FlameBase == 200           \* pos[i3+1] = 20
FlameRise == 2             \* pos[i3+1] += 0.2
DefaultSpeed == 10         \* DEFAULT_CONFIG.speed = 1.0

EffectTypes == {"GALAXY", "WAVE", "RAIN", "SPHERE", "CREATIVE_TEXT",
                "CREATIVE_HEART_FIREWORK", "CREATIVE_CAT_CAKE"}
\* a value of the type parameter that matches no case of the switch
Unrecognised == "UNRECOGNISED"
GestureEffects == {"CREATIVE_TEXT", "CREATIVE_HEART_FIREWORK",
                   "CREATIVE_CAT_CAKE"}

(* Values the random draws range over *)

\* (Math.random() - 0.5) * 5, in steps of 0.5
JitterSet == {-5, 4}
\* y component of a fresh explosion velocity, in steps of 0.02
VelocitySet == {-75, -49}
\* y of a point of the heart curve, in steps of 0.5
HeartYSet == {-30, 20}
\* config.speed in steps of 0.1: the default, the slider's ends and a value
\* far beyond the slider
SpeedSet == {1, 10, 30, 4500}
\* Math.random() * 0.5 + 0.5, in steps of 0.02
FallSet == {25, 49}
\* Date.now() * 0.001 at a tick, in steps of pi / 20: time * config.speed is
\* then an angle in hundredths of a quarter turn
TimeSet == {0, 7}
\* x * 0.1 and z * 0.1 of a wave particle, in hundredths of a quarter turn
PhaseSet == {0, 130}
KineticEffects == {"GALAXY", "WAVE", "RAIN", "SPHERE"}
\* (Math.random() - 0.5) * 200, in steps of 0.1
RainYSet == {-1000, 3, 999}
\* y of a galaxy point and of a point of the text raster, in steps of 0.1
GalaxyYSet == {-125, 80}
TextYSet == {-300, 0, 250}
\* y of a point of the cake target, in steps of 0.1
CakeYSet == {-175, 200}
\* blend rates in percent: the rates of the effects (0.05, 0.08, 0.1, 0.15)
\* and the ends of the range of rates above them
RateSet == {5, 8, 10, 15, 50, 100}

NoCallback == [effect |-> "null", act |-> Null, count |-> 0]

----------------------------------------------------------------------------
(* Arithmetic helpers *)

\* a / b rounded to the nearest integer (b > 0): the rounding of a
\* floating point result to the nearest representable step
Round(a, b) == (2 * a + b) \div (2 * b)

\* variant: the step is taken from the far side of the target
SmoothPast(current, target, percent) ==
  target + Round((target - current) * percent, 100)

\* current += (target - current) * rate, rate given in percent
Smooth(current, target, percent) ==
  current + Round((target - current) * percent, 100)

\* pos[i3 + 1] += explosionVelocities[i3 + 1]  (0.02-steps into 0.5-steps)
Integrate(y, v) == y + Round(v, 25)

\* explosionVelocities[i3 + 1] -= 0.02; explosionVelocities[i3 + 1] *= 0.98
Damp(v) == Round((v - Gravity) * DampPercent, 100)

Min(a, b) == IF a < b THEN a ELSE b

----------------------------------------------------------------------------
(* Heart-firework phase machine: the head of the update callback *)

\* variant: releasing the gesture ends LAUNCH only, EXPLODE is kept
PhaseHeldOnRelease(ph, active) ==
  IF active THEN (IF ph = IDLE THEN LAUNCH ELSE ph)
            ELSE (IF ph = LAUNCH THEN IDLE ELSE ph)

\* if (handStateIsActive) { if (phase === 0) phase = 1 } else { if (phase !== 0) phase = 0 }
PhaseAfterGesture(ph, active) ==
  IF active THEN (IF ph = IDLE THEN LAUNCH ELSE ph) ELSE IDLE

\* variant: the accumulator is not reset when LAUNCH is entered
LaunchHeightKept(ph, lh, active) == lh

\* launchHeight = 0 on the IDLE -> LAUNCH transition, otherwise untouched
LaunchHeightAfterGesture(ph, lh, active) ==
  IF active /\ ph = IDLE THEN 0 ELSE lh

\* variant: the threshold test is not strict
ExplodeReachedAtThreshold(lh) == lh >= LaunchThreshold

\* if (launchHeight > 60) phase = 2
ExplodeReached(lh) == lh > LaunchThreshold

\* variant: the lower bound has the wrong sign
RespawnBelowUpperBound(y, active) == y < -LowerBound /\ active

\* if (pos[i3 + 1] < -100 && this.handStateIsActive)
RespawnCondition(y, active) == y < LowerBound /\ active

\* the whole phase step of one tick: <<phase, launchHeight>> afterwards
PhaseStep(ph, lh, active) ==
  LET p1 == PhaseAfterGesture(ph, active)
      l1 == LaunchHeightAfterGesture(ph, lh, active)
  IN  IF p1 = LAUNCH
        THEN LET l2 == l1 + LaunchStep
             IN  <<IF ExplodeReached(l2) THEN EXPLODE ELSE LAUNCH, l2>>
        ELSE <<p1, l1>>

----------------------------------------------------------------------------
(* Host objects: frame scheduler, scene, point clouds, audio *)

\* requestAnimationFrame: a handle that names no other pending request
RequestAnimationFrame(pending) ==
  CHOOSE h \in 1..(Cardinality(pending) + 1) : h \notin pending

\* variant: the pending frame is not cancelled
CancelNothing(pending, handle) == pending

\* cancelAnimationFrame(handle)
CancelAnimationFrame(pending, handle) == pending \ {handle}

\* variant: the old point cloud stays in the scene
SceneRemoveNothing(sc, cloud) == sc

\* scene.remove(cloud)
SceneRemove(sc, cloud) == sc \ {cloud}

\* scene.add(cloud)
SceneAdd(sc, cloud) == sc \cup {cloud}

\* variant: the material is not disposed
DisposeGeometryOnly(cs, cloud) ==
  [cs EXCEPT ![cloud].geometryDisposed = TRUE]

\* geometry.dispose() and material.dispose() of one point cloud
DisposeCloud(cs, cloud) ==
  [cs EXCEPT ![cloud].geometryDisposed = TRUE,
             ![cloud].materialDisposed = TRUE]

\* the arrays an init function creates, by their lengths; 0 where the
\* effect has no such array
Buffers(type, count) ==
  [position |-> 3 * count,
   color |-> IF type \in {"GALAXY", "CREATIVE_TEXT", "CREATIVE_HEART_FIREWORK",
                          "CREATIVE_CAT_CAKE"}
               THEN 3 * count ELSE 0,
   velocities |-> IF type \in {"RAIN", "CREATIVE_CAT_CAKE"} THEN count ELSE 0,
   explosionVelocities |-> IF type = "CREATIVE_HEART_FIREWORK"
                             THEN 3 * count ELSE 0]

\* new THREE.Points(geometry, material) as the init functions build it
NewCloud(type, count) ==
  [posLen |-> Buffers(type, count).position,
   geometryDisposed |-> FALSE,
   materialDisposed |-> FALSE]

\* the closure an init function assigns to this.updateCallback
NewCallback(type, cloud, count) ==
  [effect |-> type, act |-> cloud, count |-> count]

\* variant: the callback of the previous effect stays registered
KeepCallback(cb) == cb

\* this.updateCallback = null
ClearCallback(cb) == NoCallback

\* variant: the effect variables live on and are not initialised again
KeptClosure(ph, lh, detected) == <<ph, lh, detected>>

\* let phase = 0; let launchHeight = 0; let isCatDetected = false: the
\* variables a new closure starts with, whatever the old ones held
NewClosure(ph, lh, detected) == <<IDLE, 0, FALSE>>

\* variant: a true value sticks until it is read
HandStateSticky(old, isActive) == old \/ isActive

\* this.handStateIsActive = isActive
HandStateWrite(old, isActive) == isActive

----------------------------------------------------------------------------
(* Audio *)

\* identities no open context and no pending timeout carries
FreeContexts(open, pending) == (1..(MaxAudio + MaxTimers)) \ (open \cup pending)

\* new AudioContextClass()
NewAudioContext(open, pending) ==
  CHOOSE c \in FreeContexts(open, pending) :
    \A d \in FreeContexts(open, pending) : c <= d

\* playBirthdaySong(): the flag is set before the context is created; the
\* context may be missing (early return) or its creation may throw (caught)
PlayBirthdaySong ==
  IF isPlayingAudio
    THEN UNCHANGED <<audioContext, isPlayingAudio, audioOpen, timers>>
    ELSE /\ isPlayingAudio' = TRUE
         /\ \/ UNCHANGED <<audioContext, audioOpen, timers>>
            \/ /\ Cardinality(audioOpen) < MaxAudio
               /\ Cardinality(timers) < MaxTimers
               /\ FreeContexts(audioOpen, timers) # {}
               /\ LET ctx == NewAudioContext(audioOpen, timers)
                  IN  /\ audioContext' = ctx
                      /\ audioOpen' = audioOpen \cup {ctx}
                      /\ timers' = timers \cup {ctx}

\* stopAudio(): <<audioContext, isPlayingAudio, audioOpen>> afterwards
StopAudio(ctx, open) ==
  IF ctx # Null THEN <<Null, FALSE, open \ {ctx}>> ELSE <<Null, FALSE, open>>

----------------------------------------------------------------------------
(* Gesture classification of predictWebcam *)

\* world landmarks of one frame: the wrist (0), the middle knuckle (9) and
\* the four finger tips (8, 12, 16, 20) as integer points; present is
\* false for a frame in which no hand was detected
Wrist == <<1, 1, 0>>
\* hand sizes 5 and 10
KnuckleSet == {<<1, 6, 0>>, <<1, 1, 10>>}
\* tips at distance 0, 5, 6, 12 and 22 from the wrist
TipSet == {<<1, 1, 0>>, <<4, 5, 0>>, <<1, 7, 0>>, <<1, 1, 12>>, <<1, 23, 0>>}
Hands == [present : BOOLEAN, wrist : {Wrist}, knuckle : KnuckleSet,
          index : TipSet, middle : TipSet, ring : TipSet, pinky : TipSet]

\* square of the distance the code takes the root of
DistSq(a, b) ==
  (a[1] - b[1]) * (a[1] - b[1]) + (a[2] - b[2]) * (a[2] - b[2])
    + (a[3] - b[3]) * (a[3] - b[3])

\* variant: a tip at exactly 1.2 hand sizes counts as curled
IsCurledInclusive(hand, tip) ==
  100 * DistSq(tip, hand.wrist) <= 144 * DistSq(hand.knuckle, hand.wrist)

\* distToWrist < handSize * 1.2, both sides squared
IsCurled(hand, tip) ==
  100 * DistSq(tip, hand.wrist) < 144 * DistSq(hand.knuckle, hand.wrist)

\* isActive as the hand branch of predictWebcam computes it for the effect
\* its closure captured
HandGesture(effect, hand) ==
  IF ~hand.present THEN FALSE
  ELSE IF effect = "CREATIVE_TEXT"
    THEN /\ ~IsCurled(hand, hand.index)
         /\ ~IsCurled(hand, hand.middle)
         /\ IsCurled(hand, hand.ring)
         /\ IsCurled(hand, hand.pinky)
  ELSE IF effect = "CREATIVE_HEART_FIREWORK"
    THEN /\ IsCurled(hand, hand.index)
         /\ IsCurled(hand, hand.middle)
         /\ IsCurled(hand, hand.ring)
         /\ IsCurled(hand, hand.pinky)
  ELSE FALSE

----------------------------------------------------------------------------
(* The update callbacks *)

\* one particle of the heart firework in one tick; p1 and l2 are the phase
\* after the gesture step and the launch height of this tick, ty and nv the
\* random draws.  Result: <<y, velocity, respawned>>
HeartParticle(p1, l2, y, v, h, active, ty, nv) ==
  IF p1 = IDLE
    THEN <<Smooth(y, h, HeartBlend), v, FALSE>>
  ELSE IF p1 = LAUNCH
    THEN <<Smooth(y, l2 + ty, LaunchBlend),
           IF ExplodeReached(l2) THEN nv ELSE v, FALSE>>
  ELSE LET yi == Integrate(y, v)
       IN  IF RespawnCondition(yi, active)
             THEN <<RespawnHeight + ty, nv, TRUE>>
             ELSE <<yi, Damp(v), FALSE>>

\* updateCallback of initHeartFirework
HeartFireworkCallback ==
  IF particles = Null
    THEN UNCHANGED <<phase, launchHeight, posY, velY, streak, respawned, placed>>
    ELSE
      LET n == Len(posY)
          p1 == PhaseAfterGesture(phase, handStateIsActive)
          step == PhaseStep(phase, launchHeight, handStateIsActive)
      IN  /\ phase' = step[1]
          /\ launchHeight' = step[2]
          /\ streak' = IF handStateIsActive
                         THEN Min(streak + 1, MaxStreak) ELSE 0
          /\ \E ty \in [1..n -> JitterSet], nv \in [1..n -> VelocitySet] :
               LET out == [i \in 1..n |->
                            HeartParticle(p1, step[2], posY[i], velY[i],
                                          heartY[i], handStateIsActive,
                                          ty[i], nv[i])]
               IN  /\ posY' = [i \in 1..n |-> out[i][1]]
                   /\ velY' = [i \in 1..n |-> out[i][2]]
                   /\ respawned' = {i \in 1..n : out[i][3]}
                   /\ placed' = {}

\* variant: the song is requested on every tick that reads true
CatSeen(active, detected) == active

\* if (this.handStateIsActive && !isCatDetected)
CatAppeared(active, detected) == active /\ ~detected

\* else if (!this.handStateIsActive && isCatDetected)
CatGone(active, detected) == ~active /\ detected

\* isCatDetected after the edge test at the head of the callback
CakeMode(active, detected) ==
  IF CatAppeared(active, detected) THEN TRUE
  ELSE IF CatGone(active, detected) THEN FALSE
  ELSE detected

\* velocities[i] * config.speed  (0.02-steps times 0.1-steps into 0.1-steps)
Fall(v, sp) == Round(v * sp, 50)

\* variant: a particle below the lower bound keeps falling
RainNoWrap(y) == y

\* if (positions[i3 + 1] < -100) positions[i3 + 1] = 100
RainWrap(y) == IF y < RainLower THEN RainUpper ELSE y

\* one rain particle in one tick: the fall step, then the bound test
RainStep(y, v, sp) == RainWrap(y - Fall(v, sp))

\* does the fall step of this tick take the particle below the lower bound
Wraps(y, v, sp) == y - Fall(v, sp) < RainLower

\* variant: a flame particle is reset by the random draw only
FlameUnbounded(y, reset) == (IF reset THEN FlameBase ELSE y) + FlameRise

\* a flame particle in one cake-mode tick; reset is Math.random() < 0.05
FlameStep(y, reset) ==
  (IF y > FlameLimit \/ reset THEN FlameBase ELSE y) + FlameRise

\* if (pos[i3+1] > 28 || Math.random() < 0.05)
FlameResets(y, reset) == y > FlameLimit \/ reset

\* r * cos(theta), r * sin(theta) for r = Math.random() * 2
DiscSet == {<<0, 0>>, <<19, 0>>, <<-13, 13>>}

\* col[i3] = 1; col[i3+1] = 1; col[i3+2] = 0
Yellow == <<1, 1, 0>>

\* where a reset puts a flame particle before it rises
FlamePlace(d) == [x |-> d[1], y |-> FlameBase, z |-> d[2], col |-> Yellow]

\* tracked particle i of the cat-cake effect in one tick; first is
\* flameStartIndex, mode is isCatDetected after the edge test
CakeParticle(i, y, target, v, sp, mode, first, reset) ==
  IF mode
    THEN IF i <= first
           THEN Smooth(y, target, CakeBlend)
           ELSE FlameStep(y, reset)
    ELSE RainStep(y, v, sp)

\* updateCallback of initCatCake
CatCakeCallback ==
  IF particles = Null
    THEN UNCHANGED <<isCatDetected, audioContext, isPlayingAudio, audioOpen,
                     timers, posY, respawned, placed>>
    ELSE
      LET n == Len(posY)
          mode == CakeMode(handStateIsActive, isCatDetected)
      IN  /\ isCatDetected' = mode
          /\ IF CatAppeared(handStateIsActive, isCatDetected)
               THEN PlayBirthdaySong
               ELSE UNCHANGED <<audioContext, isPlayingAudio, audioOpen,
                                timers>>
          /\ \E reset \in [1..n -> BOOLEAN], disc \in [1..n -> DiscSet] :
               /\ posY' = [i \in 1..n |->
                            CakeParticle(i, posY[i], cakeY[i], velocities[i],
                                         speed, mode, flameStartIndex,
                                         reset[i])]
               /\ placed' = IF mode
                              THEN {[i |-> i, at |-> FlamePlace(disc[i])] :
                                      i \in {j \in flameStartIndex + 1..n :
                                               FlameResets(posY[j], reset[j])}}
                              ELSE {}
          /\ respawned' = IF mode THEN {}
                          ELSE {i \in 1..n :
                                  Wraps(posY[i], velocities[i], speed)}

\* Math.sin of an angle in hundredths of a quarter turn, in steps of 0.01:
\* the sine is taken at its zeros and extrema and linear between them
Sine(angle) ==
  LET r == angle % 400
  IN  IF r <= 100 THEN r ELSE IF r <= 300 THEN 200 - r ELSE r - 400

\* Math.cos
Cosine(angle) == Sine(angle + 100)

\* rotation (thousandths of a quarter turn) and scale (steps of 0.0001) of
\* a new THREE.Points
InitPose == [rotY |-> 0, rotZ |-> 0, scale |-> 10000]

\* Math.sin(x * 0.1 + time * config.speed) * 5 +
\* Math.cos(z * 0.1 + time * config.speed) * 5, in steps of 0.1
WaveHeight(g, time, sp) ==
  Round(5 * Sine(g.x + time * sp) + 5 * Cosine(g.z + time * sp), 10)

\* what the callbacks of initGalaxy, initWave, initRain and initSphere
\* assign in one tick: ys the tracked heights, ps rotation and scale
KineticMove(effect, ys, ps, time, sp, vel, grd) ==
  IF effect = "GALAXY"
    THEN [posY |-> ys, pose |-> [ps EXCEPT !.rotY = time * sp]]
  ELSE IF effect = "WAVE"
    THEN [posY |-> [i \in 1..Len(ys) |-> WaveHeight(grd[i], time, sp)],
          pose |-> ps]
  ELSE IF effect = "RAIN"
    THEN [posY |-> [i \in 1..Len(ys) |-> RainStep(ys[i], vel[i], sp)],
          pose |-> ps]
  ELSE [posY |-> ys,
        pose |-> [rotY |-> 2 * time * sp,
                  rotZ |-> time * sp,
                  scale |-> 10000 + 5 * Sine(20 * time)]]

\* variant: the cloud stands still while the gesture is held
KineticHeld(effect, ys, ps, active, time, sp, vel, grd) ==
  IF active
    THEN [posY |-> ys, pose |-> ps]
    ELSE KineticMove(effect, ys, ps, time, sp, vel, grd)

\* one tick of a kinetic effect on a manager whose handStateIsActive is
\* active
KineticStep(effect, ys, ps, active, time, sp, vel, grd) ==
  KineticMove(effect, ys, ps, time, sp, vel, grd)

\* updateCallback of initRain
RainCallback ==
  IF particles = Null
    THEN UNCHANGED <<posY, respawned, placed>>
    ELSE
      LET n == Len(posY)
      IN  /\ posY' = KineticStep("RAIN", posY, pose, handStateIsActive, 0,
                                 speed, velocities, grid).posY
          /\ respawned' = {i \in 1..n : Wraps(posY[i], velocities[i], speed)}
          /\ placed' = {}

\* updateCallback of initGalaxy, initWave and initSphere
KineticCallback(effect, time) ==
  IF particles = Null
    THEN UNCHANGED <<posY, pose>>
    ELSE
      LET next == KineticStep(effect, posY, pose, handStateIsActive, time,
                              speed, velocities, grid)
      IN  /\ posY' = next.posY
          /\ pose' = next.pose

\* variant: the galaxy is the target whatever the gesture
TextTargetGalaxy(active, galaxy, text) == galaxy

\* textPositions if (this.handStateIsActive), galaxyPositions otherwise
TextTarget(active, galaxy, text) == IF active THEN text ELSE galaxy

\* updateCallback of initCreativeText
CreativeTextCallback ==
  IF particles = Null
    THEN UNCHANGED posY
    ELSE posY' = [i \in 1..Len(posY) |->
                   Smooth(posY[i],
                          TextTarget(handStateIsActive, galaxyY[i], textY[i]),
                          TextBlend)]

\* variant: the loops of the callbacks run to i <= count
TickWritesInclusive(effect, count) ==
  IF effect \in {"WAVE", "RAIN"}
    THEN {<<i, 3 * i + 1>> : i \in 0..count}
  ELSE IF effect \in GestureEffects
    THEN {<<i, 3 * i + c>> : i \in 0..count, c \in 0..2}
  ELSE {}

\* the elements of the position array a tick of the callback may assign,
\* each with the loop index i of the assignment
TickWrites(effect, count) ==
  IF effect \in {"WAVE", "RAIN"}
    THEN {<<i, 3 * i + 1>> : i \in 0..count - 1}
  ELSE IF effect \in GestureEffects
    THEN {<<i, 3 * i + c>> : i \in 0..count - 1, c \in 0..2}
  ELSE {}

\* if (this.updateCallback) this.updateCallback(time); rotation and scale
\* are tracked for the kinetic effects only
RunCallback(cb, time) ==
  /\ IF cb.effect = "CREATIVE_HEART_FIREWORK"
       THEN /\ HeartFireworkCallback
            /\ UNCHANGED <<isCatDetected, audioContext, isPlayingAudio,
                           audioOpen, timers, pose>>
     ELSE IF cb.effect = "CREATIVE_CAT_CAKE"
       THEN /\ CatCakeCallback
            /\ UNCHANGED <<phase, launchHeight, velY, streak, pose>>
     ELSE IF cb.effect = "RAIN"
       THEN /\ RainCallback
            /\ UNCHANGED <<phase, launchHeight, isCatDetected, velY,
                           audioContext, isPlayingAudio, audioOpen, timers,
                           streak, pose>>
     ELSE IF cb.effect = "CREATIVE_TEXT"
       THEN /\ CreativeTextCallback
            /\ UNCHANGED <<phase, launchHeight, isCatDetected, velY,
                           audioContext, isPlayingAudio, audioOpen, timers,
                           streak, respawned, placed, pose>>
     ELSE IF cb.effect \in {"GALAXY", "WAVE", "SPHERE"}
       THEN /\ KineticCallback(cb.effect, time)
            /\ UNCHANGED <<phase, launchHeight, isCatDetected, velY,
                           audioContext, isPlayingAudio, audioOpen, timers,
                           streak, respawned, placed>>
     ELSE UNCHANGED <<phase, launchHeight, isCatDetected, posY, velY,
                      audioContext, isPlayingAudio, audioOpen, timers,
                      streak, respawned, placed, pose>>
  /\ UNCHANGED <<heartY, speed, velocities, galaxyY, textY, cakeY,
                 flameStartIndex, grid>>

\* does the callback read this.handStateIsActive in this tick
ReadsGesture(cb, cloud) == cb.effect \in GestureEffects /\ cloud # Null

\* does the callback call this.playBirthdaySong() in this tick
CallsSong(cb, cloud, active, detected) ==
  /\ cb.effect = "CREATIVE_CAT_CAKE"
  /\ cloud # Null
  /\ CatAppeared(active, detected)

----------------------------------------------------------------------------
(* Operations of the manager *)

ManagerInit ==
  /\ scene = {}
  /\ particles = Null
  /\ updateCallback = NoCallback
  /\ handStateIsActive = FALSE
  /\ audioContext = Null
  /\ isPlayingAudio = FALSE
  /\ animationId = RequestAnimationFrame({})
  /\ rafPending = {RequestAnimationFrame({})}
  /\ resizeListener = TRUE
  /\ windowSize = 1
  /\ cameraAspect = 1
  /\ rendererSize = 1
  /\ rendererDisposed = FALSE
  /\ canvasInContainer = TRUE
  /\ clouds = <<>>
  /\ audioOpen = {}
  /\ timers = {}
  /\ phase = IDLE
  /\ launchHeight = 0
  /\ isCatDetected = FALSE
  /\ posY = <<>>
  /\ velY = <<>>
  /\ heartY = <<>>
  /\ speed = DefaultSpeed
  /\ velocities = <<>>
  /\ galaxyY = <<>>
  /\ textY = <<>>
  /\ cakeY = <<>>
  /\ flameStartIndex = 0
  /\ drawn = {}
  /\ lastTick = [ran |-> FALSE, flag |-> FALSE, read |-> FALSE,
                 act |-> Null, song |-> FALSE]
  /\ lastWritten = FALSE
  /\ streak = 0
  /\ respawned = {}
  /\ placed = {}
  /\ written = {}
  /\ pose = InitPose
  /\ grid = <<>>
  /\ twin = [live |-> FALSE, flag |-> FALSE, posY |-> <<>>,
             pose |-> InitPose]

\* Controls before its first render
ControlsInit ==
  /\ activeEffect = "CREATIVE_HEART_FIREWORK"
  /\ hooks = <<>>
  /\ handLandmarkerRef = Null
  /\ objectDetectorRef = Null
  /\ videoMounted = FALSE
  /\ srcObject = Null
  /\ listeners = {}
  /\ loading = FALSE
  /\ writers = {}

Init ==
  /\ ManagerInit
  /\ ControlsInit
  /\ sample = <<>>
  /\ outcome = <<>>

\* animate() with Date.now() * 0.001 = time
animateAt(time) ==
  /\ animationId \in rafPending
  /\ LET pending == rafPending \ {animationId}
         handle == RequestAnimationFrame(pending)
     IN  /\ animationId' = handle
         /\ rafPending' = pending \cup {handle}
  /\ RunCallback(updateCallback, time)
  /\ written' = IF updateCallback = NoCallback \/ particles = Null
                  THEN {}
                  ELSE TickWrites(updateCallback.effect, updateCallback.count)
  /\ drawn' = scene
  /\ lastTick' = [ran |-> updateCallback # NoCallback,
                  flag |-> handStateIsActive,
                  read |-> ReadsGesture(updateCallback, particles),
                  act |-> updateCallback.act,
                  song |-> CallsSong(updateCallback, particles,
                                     handStateIsActive, isCatDetected)]
  /\ UNCHANGED <<scene, particles, updateCallback, handStateIsActive, clouds,
                 hostVars, lastWritten, controlsVars, sample, outcome>>

\* animate(): a requested frame fires
animate ==
  /\ \E time \in TimeSet : animateAt(time)
  /\ UNCHANGED twin

\* updateHandState(isActive)
updateHandState(isActive) ==
  /\ handStateIsActive' = HandStateWrite(handStateIsActive, isActive)
  /\ lastWritten' = isActive
  /\ UNCHANGED <<managerVars, closureVars, hostVars, animationId, rafPending,
                 drawn, lastTick, streak, respawned, placed, written, pureVars>>

\* setEffect(type, config) with config.count = count and config.speed = sp;
\* k particles of the new buffer are tracked
setEffect(type, count, k, sp) ==
  /\ type \in EffectTypes => Len(clouds) < MaxClouds
  /\ LET audio == StopAudio(audioContext, audioOpen)
         removed == IF particles # Null
                      THEN SceneRemove(scene, particles) ELSE scene
         disposed == IF particles # Null
                       THEN DisposeCloud(clouds, particles) ELSE clouds
         cleared == ClearCallback(updateCallback)
         id == Len(clouds) + 1
     IN  /\ audioContext' = audio[1]
         /\ isPlayingAudio' = audio[2]
         /\ audioOpen' = audio[3]
         /\ IF type \in EffectTypes
              THEN /\ clouds' = Append(disposed, NewCloud(type, count))
                   /\ particles' = id
                   /\ scene' = SceneAdd(removed, id)
                   /\ updateCallback' = NewCallback(type, id, count)
              ELSE /\ clouds' = disposed
                   /\ particles' = Null
                   /\ scene' = removed
                   /\ updateCallback' = cleared
  /\ LET closure == NewClosure(phase, launchHeight, isCatDetected)
     IN  /\ phase' = closure[1]
         /\ launchHeight' = closure[2]
         /\ isCatDetected' = closure[3]
  /\ speed' = sp
  /\ IF type = "CREATIVE_HEART_FIREWORK"
       THEN /\ \E hy \in [1..k -> HeartYSet] :
                 /\ heartY' = hy
                 /\ posY' = hy
                 /\ velY' = [i \in 1..k |-> 0]
            /\ velocities' = <<>>
            /\ galaxyY' = <<>>
            /\ textY' = <<>>
            /\ cakeY' = <<>>
            /\ flameStartIndex' = 0
     ELSE IF type = "RAIN"
       THEN /\ posY' \in [1..k -> RainYSet]
            /\ velocities' \in [1..k -> FallSet]
            /\ heartY' = <<>>
            /\ velY' = <<>>
            /\ galaxyY' = <<>>
            /\ textY' = <<>>
            /\ cakeY' = <<>>
            /\ flameStartIndex' = 0
     ELSE IF type = "CREATIVE_TEXT"
       THEN /\ galaxyY' \in [1..k -> GalaxyYSet]
            /\ posY' = galaxyY'
            /\ textY' \in [1..k -> TextYSet]
            /\ heartY' = <<>>
            /\ velY' = <<>>
            /\ velocities' = <<>>
            /\ cakeY' = <<>>
            /\ flameStartIndex' = 0
     ELSE IF type = "CREATIVE_CAT_CAKE"
       THEN /\ posY' \in [1..k -> RainYSet]
            /\ velocities' \in [1..k -> FallSet]
            /\ cakeY' \in [1..k -> CakeYSet]
            /\ flameStartIndex' \in 0..k
            /\ heartY' = <<>>
            /\ velY' = <<>>
            /\ galaxyY' = <<>>
            /\ textY' = <<>>
     ELSE /\ posY' = IF type = "WAVE" THEN [i \in 1..k |-> 0] ELSE <<>>
          /\ heartY' = <<>>
          /\ velY' = <<>>
          /\ velocities' = <<>>
          /\ galaxyY' = <<>>
          /\ textY' = <<>>
          /\ cakeY' = <<>>
          /\ flameStartIndex' = 0
  /\ pose' = InitPose
  /\ IF type = "WAVE"
       THEN grid' \in [1..k -> [x : PhaseSet, z : PhaseSet]]
       ELSE grid' = <<>>
  /\ streak' = 0
  /\ respawned' = {}
  /\ placed' = {}
  /\ written' = {}
  /\ UNCHANGED <<handStateIsActive, timers, hostVars, animationId, rafPending,
                 drawn, lastTick, lastWritten, pureVars>>

\* variant: removeChild is called without the contains test
CanvasAssumedInside(contained) == TRUE

\* if (this.container.contains(this.renderer.domElement))
ContainsCanvas(contained) == contained

\* cleanup(); removeChild throws for a node that is not a child, a call
\* that throws has no successor
cleanup ==
  /\ ContainsCanvas(canvasInContainer) => canvasInContainer
  /\ resizeListener' = FALSE
  /\ LET audio == StopAudio(audioContext, audioOpen)
     IN  /\ audioContext' = audio[1]
         /\ isPlayingAudio' = audio[2]
         /\ audioOpen' = audio[3]
  /\ rafPending' = IF animationId # Null
                     THEN CancelAnimationFrame(rafPending, animationId)
                     ELSE rafPending
  /\ rendererDisposed' = TRUE
  /\ canvasInContainer' = FALSE
  /\ UNCHANGED <<scene, particles, updateCallback, handStateIsActive,
                 animationId, windowSize, cameraAspect, rendererSize, clouds,
                 timers, closureVars, drawn, lastTick, lastWritten, streak,
                 respawned, placed, written, controlsVars, pureVars>>

\* the window is resized to size; handleResize runs if still registered
windowResize(size) ==
  /\ size # windowSize
  /\ windowSize' = size
  /\ IF resizeListener
       THEN /\ cameraAspect' = size
            /\ rendererSize' = size
       ELSE UNCHANGED <<cameraAspect, rendererSize>>
  /\ UNCHANGED <<managerVars, closureVars, handStateIsActive, animationId,
                 rafPending, resizeListener, rendererDisposed,
                 canvasInContainer, drawn, lastTick, lastWritten, streak,
                 respawned, placed, written, controlsVars, pureVars>>

\* the setTimeout callback of playBirthdaySong
songTimeout(ctx) ==
  /\ ctx \in timers
  /\ timers' = timers \ {ctx}
  /\ isPlayingAudio' = FALSE
  /\ UNCHANGED <<scene, particles, updateCallback, handStateIsActive,
                 audioContext, audioOpen, clouds, closureVars, hostVars,
                 animationId, rafPending, drawn, lastTick, lastWritten,
                 streak, respawned, placed, written, controlsVars, pureVars>>

SetEffectAny ==
  /\ \E type \in EffectTypes \cup {Unrecognised}, count \in 1..MaxCount :
       setEffect(type, count, 0, DefaultSpeed)
  /\ UNCHANGED controlsVars

UpdateHandStateAny ==
  /\ \E isActive \in BOOLEAN : updateHandState(isActive)
  /\ UNCHANGED controlsVars

SongTimeoutAny == \E ctx \in timers : songTimeout(ctx)

WindowResizeAny == \E size \in 1..MaxWindow : windowResize(size)

Next ==
  \/ animate
  \/ UpdateHandStateAny
  \/ SetEffectAny
  \/ cleanup
  \/ WindowResizeAny
  \/ SongTimeoutAny

Spec == Init /\ [][Next]_vars

(* The application's mount sequence followed by frames and gesture writes:   *)
(* App creates the manager and activates the heart firework, its default     *)
(* effect; one particle of the buffer is tracked.                            *)

MountFirework ==
  /\ clouds = <<>>
  /\ setEffect("CREATIVE_HEART_FIREWORK", 1, 1, DefaultSpeed)
  /\ UNCHANGED controlsVars

NextFirework ==
  \/ MountFirework
  \/ animate
  \/ UpdateHandStateAny

SpecFirework == Init /\ [][NextFirework]_vars

(* The rain effect and the cat-cake effect activated on a new manager, one   *)
(* particle of the buffer tracked, followed by frames and gesture writes.    *)

MountRain ==
  /\ clouds = <<>>
  /\ \E sp \in SpeedSet : setEffect("RAIN", 1, 1, sp)
  /\ UNCHANGED controlsVars

MountCatCake ==
  /\ clouds = <<>>
  /\ setEffect("CREATIVE_CAT_CAKE", 1, 1, DefaultSpeed)
  /\ UNCHANGED controlsVars

NextRain ==
  \/ MountRain
  \/ MountCatCake
  \/ animate
  \/ UpdateHandStateAny

SpecRain == Init /\ [][NextRain]_vars

\* the browser runs every requested frame
FairRain == SpecRain /\ WF_vars(animate)

(* The text morph and the cat-cake effect activated on a new manager.        *)

MountText ==
  /\ clouds = <<>>
  /\ setEffect("CREATIVE_TEXT", 1, 1, DefaultSpeed)
  /\ UNCHANGED controlsVars

NextBlend ==
  \/ MountText
  \/ MountCatCake
  \/ animate
  \/ UpdateHandStateAny

SpecBlend == Init /\ [][NextBlend]_vars

(* A kinetic effect run twice: the manager and a second run that starts    *)
(* from the same buffer and ticks at the same times, each with gesture      *)
(* writes of its own.                                                       *)

MountKinetic ==
  /\ clouds = <<>>
  /\ \E type \in KineticEffects, sp \in {DefaultSpeed, 30} :
       setEffect(type, 1, 1, sp)
  /\ UNCHANGED controlsVars

\* the second run is activated with the same buffer and configuration
twinStart ==
  /\ particles # Null
  /\ ~twin.live
  /\ ~lastTick.ran
  /\ twin' = [twin EXCEPT !.live = TRUE, !.posY = posY, !.pose = pose]
  /\ UNCHANGED <<managerVars, closureVars, hostVars, controlsVars, frameVars,
                 sample, outcome>>

\* updateHandState(isActive) in the second run
twinWrite(isActive) ==
  /\ twin.live
  /\ twin' = [twin EXCEPT !.flag = HandStateWrite(twin.flag, isActive)]
  /\ UNCHANGED <<managerVars, closureVars, hostVars, controlsVars, frameVars,
                 sample, outcome>>

\* a frame fires in both runs at the same time
twinTick ==
  /\ twin.live
  /\ \E time \in TimeSet :
       /\ animateAt(time)
       /\ LET next == KineticStep(updateCallback.effect, twin.posY, twin.pose,
                                  twin.flag, time, speed, velocities, grid)
          IN  twin' = [twin EXCEPT !.posY = next.posY, !.pose = next.pose]

TwinWriteAny == \E isActive \in BOOLEAN : twinWrite(isActive)

NextKinetic ==
  \/ MountKinetic
  \/ twinStart
  \/ twinTick
  \/ UpdateHandStateAny
  \/ TwinWriteAny

SpecKinetic == Init /\ [][NextKinetic]_vars

----------------------------------------------------------------------------
(* The vision effect hook of Controls.  A run of the hook is a record: the   *)
(* effect its closure captured, its isMounted variable, how far its          *)
(* setupVision has come, and the number of predictWebcam frames it has       *)
(* requested that have neither run nor been cancelled.                       *)

IsHand(type) == type \in {"CREATIVE_TEXT", "CREATIVE_HEART_FIREWORK"}
IsObject(type) == type = "CREATIVE_CAT_CAKE"

\* the landmark sets a frame of the camera can show
FistHand ==
  [present |-> TRUE, wrist |-> Wrist, knuckle |-> <<1, 6, 0>>,
   index |-> <<1, 1, 0>>, middle |-> <<1, 1, 0>>, ring |-> <<1, 1, 0>>,
   pinky |-> <<1, 1, 0>>]
VictoryHand ==
  [FistHand EXCEPT !.index = <<1, 23, 0>>, !.middle = <<1, 23, 0>>]
NoHand == [FistHand EXCEPT !.present = FALSE]
Poses == {FistHand, VictoryHand, NoHand}

\* video.currentTime > 0 && !video.paused && !video.ended
Playing == videoMounted /\ srcObject # Null /\ ~loading

\* isActive as a predictWebcam of a run with the captured effect computes it
\* from the detectors the refs hold now
Detect(effect, hand, cat) ==
  IF handLandmarkerRef # Null THEN HandGesture(effect, hand)
  ELSE IF objectDetectorRef # Null THEN cat
  ELSE FALSE

\* if (animationFrameId) cancelAnimationFrame(animationFrameId)
CancelFrame(n) == IF n > 0 THEN n - 1 ELSE n

\* the hook's return function, run for the hook run old
HookCleanup(hs, old) ==
  [hs EXCEPT ![old].isMounted = FALSE,
             ![old].frames = CancelFrame(hs[old].frames)]

\* App renders with activeEffect = type (the mount, or setActiveEffect from
\* the effect buttons): the video element exists iff the effect is a vision
\* effect; the previous run of the hook is cleaned up, the hook runs again
\* up to the first await of setupVision, and the manager switches effect
renderEffect(type) ==
  /\ Len(hooks) < MaxHooks
  /\ IF hooks = <<>> THEN type = activeEffect ELSE type # activeEffect
  /\ activeEffect' = type
  /\ videoMounted' = (type \in GestureEffects)
  /\ IF videoMounted /\ type \in GestureEffects
       THEN UNCHANGED <<srcObject, listeners, loading>>
       ELSE /\ srcObject' = Null
            /\ listeners' = {}
            /\ loading' = FALSE
  /\ handLandmarkerRef' = Null
  /\ objectDetectorRef' = Null
  /\ LET cleaned == IF hooks = <<>> THEN hooks
                    ELSE HookCleanup(hooks, Len(hooks))
     IN  hooks' = Append(cleaned,
                         [effect |-> type,
                          isMounted |-> TRUE,
                          stage |-> IF type \in GestureEffects
                                      THEN "resolver" ELSE "returned",
                          frames |-> 0])
  /\ writers' = {}
  /\ setEffect(type, 1, 0, DefaultSpeed)

\* await FilesetResolver.forVisionTasks(...) settles for run g
resolverDone(g, ok) ==
  /\ hooks[g].stage = "resolver"
  /\ hooks' = [hooks EXCEPT ![g].stage =
                 IF ~ok THEN "modelFailed"
                 ELSE IF ~hooks[g].isMounted THEN "returned"
                 ELSE "model"]
  /\ writers' = {}
  /\ UNCHANGED <<activeEffect, handLandmarkerRef, objectDetectorRef,
                 videoMounted, srcObject, listeners, loading>>
  /\ UNCHANGED <<managerVars, closureVars, hostVars, frameVars, pureVars>>

\* await createFromOptions(...) settles for run g; on success the ref is
\* assigned and startCamera runs up to its await; camera is false if
\* navigator.mediaDevices.getUserMedia does not exist
modelDone(g, ok, camera) ==
  /\ hooks[g].stage = "model"
  /\ IF ok
       THEN /\ hooks' = [hooks EXCEPT ![g].stage =
                           IF camera THEN "camera" ELSE "noCamera"]
            /\ IF IsHand(hooks[g].effect)
                 THEN /\ handLandmarkerRef' = g
                      /\ UNCHANGED objectDetectorRef
                 ELSE /\ objectDetectorRef' = g
                      /\ UNCHANGED handLandmarkerRef
       ELSE /\ hooks' = [hooks EXCEPT ![g].stage = "modelFailed"]
            /\ UNCHANGED <<handLandmarkerRef, objectDetectorRef>>
  /\ writers' = {}
  /\ UNCHANGED <<activeEffect, videoMounted, srcObject, listeners, loading>>
  /\ UNCHANGED <<managerVars, closureVars, hostVars, frameVars, pureVars>>

\* await getUserMedia(...) settles for run g
cameraDone(g, ok) ==
  /\ hooks[g].stage = "camera"
  /\ hooks' = [hooks EXCEPT ![g].stage =
                 IF ok THEN "ready" ELSE "cameraDenied"]
  /\ IF ok /\ hooks[g].isMounted /\ videoMounted
       THEN /\ srcObject' = g
            /\ listeners' = listeners \cup {g}
            /\ loading' = TRUE
       ELSE UNCHANGED <<srcObject, listeners, loading>>
  /\ writers' = {}
  /\ UNCHANGED <<activeEffect, handLandmarkerRef, objectDetectorRef,
                 videoMounted>>
  /\ UNCHANGED <<managerVars, closureVars, hostVars, frameVars, pureVars>>

\* the body of one predictWebcam call between the null test and the frame
\* request: writes the signal if the video is playing
PredictWrites(gs, playing, hand, cat) ==
  IF playing /\ gs # {}
    THEN LET last == CHOOSE g \in gs : \A h \in gs : h <= g
         IN  /\ updateHandState(Detect(hooks[last].effect, hand, cat))
             /\ writers' = gs
    ELSE /\ writers' = {}
         /\ UNCHANGED <<managerVars, closureVars, hostVars, frameVars,
                        pureVars>>

\* the video element fires 'loadeddata' for the stream assigned last: every
\* predictWebcam registered on the element runs, in registration order, and
\* requests a frame; started is whether the stream already plays
loadeddata(started, hand, cat) ==
  /\ videoMounted
  /\ loading
  /\ loading' = FALSE
  /\ hooks' = [g \in 1..Len(hooks) |->
                 IF g \in listeners
                   THEN [hooks[g] EXCEPT !.frames = @ + 1] ELSE hooks[g]]
  /\ PredictWrites(listeners, started, hand, cat)
  /\ UNCHANGED <<activeEffect, handLandmarkerRef, objectDetectorRef,
                 videoMounted, srcObject, listeners>>

\* a frame requested by a predictWebcam of run g fires
predictFrame(g, hand, cat) ==
  /\ hooks[g].frames > 0
  /\ IF videoMounted
       THEN /\ PredictWrites({g}, Playing, hand, cat)
            /\ UNCHANGED hooks
       ELSE /\ hooks' = [hooks EXCEPT ![g].frames = @ - 1]
            /\ writers' = {}
            /\ UNCHANGED <<managerVars, closureVars, hostVars, frameVars,
                           pureVars>>
  /\ UNCHANGED <<activeEffect, handLandmarkerRef, objectDetectorRef,
                 videoMounted, srcObject, listeners, loading>>

RenderEffectAny == \E type \in EffectTypes : renderEffect(type)

ResolverDoneAny ==
  \E g \in 1..Len(hooks), ok \in BOOLEAN : resolverDone(g, ok)

ModelDoneAny ==
  \E g \in 1..Len(hooks), ok \in BOOLEAN, camera \in BOOLEAN :
    modelDone(g, ok, camera)

CameraDoneAny ==
  \E g \in 1..Len(hooks), ok \in BOOLEAN : cameraDone(g, ok)

LoadedDataAny ==
  \E started \in BOOLEAN, hand \in Poses, cat \in BOOLEAN :
    loadeddata(started, hand, cat)

PredictFrameAny ==
  \E g \in 1..Len(hooks), hand \in Poses, cat \in BOOLEAN :
    predictFrame(g, hand, cat)

NextControls ==
  \/ RenderEffectAny
  \/ ResolverDoneAny
  \/ ModelDoneAny
  \/ CameraDoneAny
  \/ LoadedDataAny
  \/ PredictFrameAny
  \/ animate

SpecControls == Init /\ [][NextControls]_vars

(* The smoothing update alone: a value, a target and a rate are drawn and    *)
(* the update is applied again and again.                                    *)

InitSmooth ==
  /\ ManagerInit
  /\ ControlsInit
  /\ sample \in [current : -MaxValue..MaxValue,
                 target : {-MaxValue, 0, 33},
                 percent : RateSet]
  /\ outcome = [applied |-> FALSE, previous |-> 0]

\* current += (target - current) * r
smoothStep ==
  /\ sample' = [sample EXCEPT
                  !.current = Smooth(sample.current, sample.target,
                                     sample.percent)]
  /\ outcome' = [applied |-> TRUE, previous |-> sample.current]
  /\ UNCHANGED <<managerVars, closureVars, hostVars, controlsVars, frameVars,
                 twin>>

SpecSmooth == InitSmooth /\ [][smoothStep]_vars

(* The hand branch of predictWebcam alone: the effect and the landmarks of   *)
(* one frame are drawn and the frame is classified.                          *)

InitFinger ==
  /\ ManagerInit
  /\ ControlsInit
  /\ sample \in [effect : {"CREATIVE_TEXT", "CREATIVE_HEART_FIREWORK"},
                 hand : Hands]
  /\ outcome = [applied |-> FALSE, value |-> FALSE]

classifyFrame ==
  /\ ~outcome.applied
  /\ outcome' = [applied |-> TRUE,
                 value |-> HandGesture(sample.effect, sample.hand)]
  /\ UNCHANGED <<sample, managerVars, closureVars, hostVars, controlsVars,
                 frameVars, twin>>

SpecFinger == InitFinger /\ [][classifyFrame]_vars

(* The target clouds alone: generateCanvasPositions and the bands of the     *)
(* cake target are applied to a drawn count, raster and random draws.        *)
(* Coordinates are in steps of 0.01.                                         *)

MaxParticles == 20

\* marks a value that is not a number or is undefined
NaN == 1000000

\* if (data[i] > 100)
BrightThreshold == 100

\* cakePositions[i3+1] = textPositions[tIdx+1] - 40
TextShift == 4000

\* pixels the scan visits, in its order: rows from the top, each row from
\* the left, every third pixel
ScanOrder == <<<<255, 99>>, <<3, 300>>, <<510, 300>>>>

\* red channel of a scanned pixel
Brightness == {0, 100, 101}

\* (Math.random() - 0.5) * 0.5 twice and (Math.random() - 0.5) * 2
Draws == {<<-25, -25, -100>>, <<0, 0, 0>>, <<24, 24, 99>>}

\* { x: (x - width / 2) * 0.15, y: -(y - height / 2) * 0.15 }
PixelPoint(p) == [x |-> (p[1] - 256) * 15, y |-> -((p[2] - 256) * 15)]

\* validPoints after the scan of the pixels from the j-th on
RECURSIVE ValidPoints(_, _)
ValidPoints(bright, j) ==
  IF j > Len(ScanOrder)
    THEN <<>>
    ELSE (IF bright[j] > BrightThreshold
            THEN <<PixelPoint(ScanOrder[j])>>
            ELSE <<>>) \o ValidPoints(bright, j + 1)

\* a sum of numbers is not a number when one of them is not
Plus(a, b) == IF a = NaN \/ b = NaN THEN NaN ELSE a + b

\* variant: the candidate list is indexed without the emptiness test
PointUnguarded(valid, i) ==
  IF Len(valid) > 0
    THEN valid[(i % Len(valid)) + 1]
    ELSE [x |-> NaN, y |-> NaN]

\* variant: every particle takes the first candidate
PointFirst(valid, i) ==
  IF Len(valid) > 0 THEN valid[1] ELSE [x |-> 0, y |-> 0]

\* validPoints.length > 0 ? validPoints[i % validPoints.length] : {x:0, y:0}
PointFor(valid, i) ==
  IF Len(valid) > 0
    THEN valid[(i % Len(valid)) + 1]
    ELSE [x |-> 0, y |-> 0]

\* new Float32Array(count * 3); count4 is the count argument in quarters,
\* the length of a typed array is the integer part of the number given
ArrayLength(count4) == (3 * count4) \div 4

\* variant: no array is returned without a raster context
NoPositions(len) == <<>>

\* if (!ctx) return new Float32Array(count * 3)
BlankPositions(len) == [j \in 1..len |-> 0]

\* generateCanvasPositions(text, count): bright is the raster the text was
\* drawn to, seed the random draws, taken in turn by the particles; a
\* write past the end of the array is dropped
generateCanvasPositions(count4, ctx, bright, seed) ==
  LET len == ArrayLength(count4)
      valid == ValidPoints(bright, 1)
      Coordinate(i, c) ==
        LET point == PointFor(valid, i)
            jitter == seed[(i % Len(seed)) + 1]
        IN  IF c = 0 THEN Plus(point.x, jitter[1])
            ELSE IF c = 1 THEN Plus(point.y, jitter[2])
            ELSE jitter[3]
  IN  IF ~ctx
        THEN BlankPositions(len)
        ELSE [j \in 1..len |->
                IF 4 * ((j - 1) \div 3) < count4
                  THEN Coordinate((j - 1) \div 3, (j - 1) % 3)
                  ELSE 0]

\* variant: the band sizes are rounded up
BandCountsCeiling(count) ==
  [base |-> (count * 4 + 9) \div 10,
   top |-> (count * 3 + 9) \div 10,
   candle |-> (count * 5 + 99) \div 100,
   text |-> (count * 2 + 9) \div 10]

\* Math.floor(count * 0.4), Math.floor(count * 0.3),
\* Math.floor(count * 0.05), Math.floor(count * 0.2)
BandCounts(count) ==
  [base |-> (count * 4) \div 10,
   top |-> (count * 3) \div 10,
   candle |-> (count * 5) \div 100,
   text |-> (count * 2) \div 10]

\* the band of every write to cakePositions, in the order of the writes:
\* the write at place n goes to idx = n - 1
BandWrites(count) ==
  LET c == BandCounts(count)
  IN  [j \in 1..c.base |-> "base"] \o [j \in 1..c.top |-> "top"] \o
      [j \in 1..c.candle |-> "candle"] \o [j \in 1..c.text |-> "text"]

\* const flameStartIndex = idx
FlameStart(count) == Len(BandWrites(count))

\* the bands written to each index of cakePositions: an index past the end
\* of the array takes no write, an index no loop reaches is left as created
BandsAt(count) ==
  [i \in 0..count - 1 |->
     {BandWrites(count)[n] : n \in {m \in 1..FlameStart(count) : m - 1 = i}}]

\* an element read from a typed array, undefined outside of it
ReadAt(array, index) ==
  IF index = NaN \/ index < 0 \/ index >= Len(array)
    THEN NaN
    ELSE array[index + 1]

\* (i % (textPositions.length/3)) * 3
TextIndex(i, len) == IF len = 0 THEN NaN ELSE (3 * i) % len

\* the text band of cakePositions
TextBand(count, textPositions) ==
  [i \in 1..BandCounts(count).text |->
     LET tIdx == TextIndex(i - 1, Len(textPositions))
     IN  [x |-> ReadAt(textPositions, tIdx),
          y |-> Plus(ReadAt(textPositions, Plus(tIdx, 1)), -TextShift),
          z |-> ReadAt(textPositions, Plus(tIdx, 2))]]

InitTargets ==
  /\ ManagerInit
  /\ ControlsInit
  /\ sample \in [count : 1..MaxParticles,
                 cake : BOOLEAN,
                 ctx : BOOLEAN,
                 bright : [1..Len(ScanOrder) -> Brightness],
                 seed : [1..2 -> Draws]]
  /\ outcome = [applied |-> FALSE, positions |-> <<>>, flameStart |-> 0,
                bands |-> <<>>, text |-> <<>>]

\* the target clouds of initCreativeText (count) and initCatCake (count / 4)
buildTargets ==
  /\ ~outcome.applied
  /\ LET positions ==
           generateCanvasPositions(IF sample.cake THEN sample.count
                                                  ELSE 4 * sample.count,
                                   sample.ctx, sample.bright, sample.seed)
     IN  outcome' =
           [applied |-> TRUE,
            positions |-> positions,
            flameStart |-> IF sample.cake THEN FlameStart(sample.count)
                                          ELSE 0,
            bands |-> IF sample.cake THEN BandsAt(sample.count) ELSE <<>>,
            text |-> IF sample.cake THEN TextBand(sample.count, positions)
                                    ELSE <<>>]
  /\ UNCHANGED <<sample, managerVars, closureVars, hostVars, controlsVars,
                 frameVars, twin>>

\* the rest of the activation, after the targets are built
mountTargets ==
  /\ outcome.applied
  /\ clouds = <<>>
  /\ setEffect(IF sample.cake THEN "CREATIVE_CAT_CAKE" ELSE "CREATIVE_TEXT",
               sample.count, 1, DefaultSpeed)
  /\ (~sample.cake /\ ~sample.ctx) => textY'[1] = 0
  /\ UNCHANGED controlsVars

SpecTargets == InitTargets /\ [][buildTargets \/ mountTargets]_vars

(* One flame particle of the cake alone: its height and its colour under    *)
(* ticks of the rain mode and of the cake mode.  Colour components are in   *)
(* steps of 0.01.                                                           *)

MaxRainTicks == 2    \* rain-mode ticks in one run
MaxDeficit == 4      \* the run stops once green is this far below 0

\* colors[i3] = 1; colors[i3+1] = 1; colors[i3+2] = 1
White == <<100, 100, 100>>

\* col[i3] += (1 - col[i3]) * 0.1, for the three components
RainColour(col) == [j \in 1..3 |-> Smooth(col[j], 100, 10)]

\* the colour of a flame particle after a cake-mode tick: yellow on a
\* reset, then col[i3] += (1 - col[i3]) * 0.1 and col[i3+1] -= 0.02
FlameColour(col, y, reset) ==
  LET base == IF FlameResets(y, reset)
                THEN [j \in 1..3 |-> 100 * Yellow[j]] ELSE col
  IN  <<Smooth(base[1], 100, 10), base[2] - 2, base[3]>>

InitFlame ==
  /\ ManagerInit
  /\ ControlsInit
  /\ sample \in [y : RainYSet, v : FallSet, col : {White}, rain : {0}]
  /\ outcome = [applied |-> FALSE, cake |-> FALSE]

\* a tick of the callback in rain mode
flameRainTick ==
  /\ sample.rain < MaxRainTicks
  /\ sample.col[2] >= -MaxDeficit
  /\ sample' = [sample EXCEPT
                  !.y = CakeParticle(1, sample.y, 0, sample.v, DefaultSpeed,
                                     FALSE, 0, FALSE),
                  !.col = RainColour(sample.col),
                  !.rain = @ + 1]
  /\ outcome' = [applied |-> TRUE, cake |-> FALSE]
  /\ UNCHANGED <<managerVars, closureVars, hostVars, controlsVars, frameVars,
                 twin>>

\* a tick of the callback in cake mode; reset is Math.random() < 0.05
flameCakeTick(reset) ==
  /\ sample.col[2] >= -MaxDeficit
  /\ sample' = [sample EXCEPT
                  !.y = CakeParticle(1, sample.y, 0, sample.v, DefaultSpeed,
                                     TRUE, 0, reset),
                  !.col = FlameColour(sample.col, sample.y, reset)]
  /\ outcome' = [applied |-> TRUE, cake |-> TRUE]
  /\ UNCHANGED <<managerVars, closureVars, hostVars, controlsVars, frameVars,
                 twin>>

FlameCakeTickAny == \E reset \in BOOLEAN : flameCakeTick(reset)

SpecFlame == InitFlame /\ [][flameRainTick \/ FlameCakeTickAny]_vars

(* One particle of the wave, of the rain and of the cat-cake effect in rain *)
(* mode, with its three coordinates: x and z of a wave particle are the     *)
(* phases x * 0.1 and z * 0.1, those of the other two are in steps of 0.1.  *)

\* (Math.random() - 0.5) * 200 for x and for z
PlaceSet == {-370, 520}

PlaceEffects == {"WAVE", "RAIN", "CREATIVE_CAT_CAKE"}

\* variant: the wrap of the rain effect draws x and z as the cat-cake
\* effect does
PlaceStepRedrawn(effect, p, v, time, sp, draw) ==
  IF effect = "WAVE"
    THEN [p EXCEPT !.y = WaveHeight([x |-> p.x, z |-> p.z], time, sp)]
  ELSE IF Wraps(p.y, v, sp)
    THEN [x |-> draw[1], y |-> RainUpper, z |-> draw[2]]
  ELSE [p EXCEPT !.y = p.y - Fall(v, sp)]

\* what one tick assigns to the three coordinates of a particle: the
\* callback of initWave, of initRain, and the rain mode of initCatCake;
\* draw holds the two Math.random() positions of a cat-cake wrap
PlaceStep(effect, p, v, time, sp, draw) ==
  IF effect = "WAVE"
    THEN [p EXCEPT !.y = WaveHeight([x |-> p.x, z |-> p.z], time, sp)]
  ELSE IF effect = "RAIN"
    THEN [p EXCEPT !.y = RainStep(p.y, v, sp)]
  ELSE IF Wraps(p.y, v, sp)
    THEN [x |-> draw[1], y |-> RainUpper, z |-> draw[2]]
  ELSE [p EXCEPT !.y = p.y - Fall(v, sp)]

\* the particle as the init function of its effect leaves it
PlaceStart(effect) ==
  IF effect = "WAVE"
    THEN {[p |-> [x |-> x, y |-> 0, z |-> z], v |-> 0] :
            x \in PhaseSet, z \in PhaseSet}
    ELSE {[p |-> [x |-> x, y |-> y, z |-> z], v |-> v] :
            x \in PlaceSet, y \in RainYSet, z \in PlaceSet, v \in FallSet}

InitPlace ==
  /\ ManagerInit
  /\ ControlsInit
  /\ \E effect \in PlaceEffects, sp \in {DefaultSpeed, 30} :
       \E s \in PlaceStart(effect) :
         sample = [effect |-> effect, sp |-> sp, v |-> s.v, p |-> s.p,
                   start |-> s.p]
  /\ outcome = [ticked |-> FALSE, wrapped |-> FALSE, draw |-> <<>>]

\* a tick of the callback at Date.now() * 0.001 = time
placeTick ==
  \E time \in TimeSet, draw \in PlaceSet \X PlaceSet :
    LET wraps == sample.effect # "WAVE" /\ Wraps(sample.p.y, sample.v, sample.sp)
    IN  /\ sample' = [sample EXCEPT
                        !.p = PlaceStep(sample.effect, sample.p, sample.v,
                                        time, sample.sp, draw)]
        /\ outcome' = [ticked |-> TRUE, wrapped |-> wraps,
                       draw |-> IF wraps /\ sample.effect = "CREATIVE_CAT_CAKE"
                                  THEN draw ELSE <<>>]
        /\ UNCHANGED <<managerVars, closureVars, hostVars, controlsVars,
                       frameVars, twin>>

SpecPlace == InitPlace /\ [][placeTick]_vars

TypeOK ==
  /\ phase \in {IDLE, LAUNCH, EXPLODE}
  /\ launchHeight \in 0..(LaunchThreshold + LaunchStep)
  /\ handStateIsActive \in BOOLEAN
  /\ particles \in 0..Len(clouds)

----------------------------------------------------------------------------
(* Properties of the heart firework, checked under SpecFirework *)

HeartTick ==
  /\ animate
  /\ updateCallback.effect = "CREATIVE_HEART_FIREWORK"
  /\ particles # Null

\* C1: with the gesture read true at every tick from IDLE, the first tick
\* enters LAUNCH from height 0, every LAUNCH tick adds 1.5, and EXPLODE is
\* entered in the 41st consecutive gesture-active tick (height 61.5, the
\* first above 60) and in no earlier one, whatever the particles and the
\* random draws are.
C1_LaunchThenExplode ==
  /\ [](/\ phase = IDLE => streak = 0
        /\ phase = LAUNCH => streak \in 1..40 /\ launchHeight = 3 * streak
        /\ phase = EXPLODE => streak >= 41 /\ launchHeight = 123)
  /\ [][HeartTick /\ handStateIsActive =>
          /\ phase = IDLE => phase' = LAUNCH /\ launchHeight' = 0 + 3
          /\ phase = LAUNCH => launchHeight' = launchHeight + 3
          /\ (phase # EXPLODE /\ phase' = EXPLODE) <=> streak' = 41
          /\ (phase' = EXPLODE /\ phase # EXPLODE) =>
               launchHeight <= 120 /\ launchHeight' > 120]_vars

C1_Witness == phase = EXPLODE /\ streak = 41 /\ launchHeight = 123

\* C2: a LAUNCH tick that reads the gesture false ends in IDLE, and the next
\* entry into LAUNCH restarts the height from 0, so that the height in LAUNCH
\* always counts the gesture-active ticks of the current run only and
\* EXPLODE again needs all 41 of them.
C2_ReleaseResetsLaunch ==
  /\ [][HeartTick /\ phase = LAUNCH /\ ~handStateIsActive =>
          phase' = IDLE]_vars
  /\ [][HeartTick /\ phase = IDLE /\ handStateIsActive =>
          phase' = LAUNCH /\ launchHeight' = 3]_vars
  /\ [](phase = LAUNCH => launchHeight = 3 * streak)
  /\ [](phase = EXPLODE => streak >= 41)

\* LAUNCH was entered again (height back at one increment) by a particle
\* that an earlier launch had already lifted far above the heart
C2_Witness ==
  /\ phase = LAUNCH
  /\ launchHeight = 3
  /\ Len(posY) = 1
  /\ posY[1] > 60

C4_RespawnIffBelowAndActive ==
  /\ [][HeartTick /\ PhaseAfterGesture(phase, handStateIsActive) = EXPLODE =>
          \A i \in 1..Len(posY) :
            LET yi == posY[i] + Round(velY[i], 25)
            IN  /\ i \in respawned' <=> (yi < -200 /\ handStateIsActive)
                /\ i \in respawned' =>
                     posY'[i] \in 115..125 /\ velY'[i] \in VelocitySet
                /\ i \notin respawned' => posY'[i] = yi]_vars
  /\ [](phase = EXPLODE => \A i \in 1..Len(posY) : posY[i] >= -200)
  /\ [](respawned # {} => lastTick.read /\ lastTick.flag)

C4_Witness == phase = EXPLODE /\ respawned = {1} /\ posY[1] >= 115

----------------------------------------------------------------------------
(* Properties of the manager, checked under Spec *)

Disposed(c) == clouds[c].geometryDisposed /\ clouds[c].materialDisposed

\* C5: after any sequence of setEffect calls the manager holds the buffer of
\* the last call only: its position array has 3 * count entries for the
\* count of that call, the scene holds that point cloud and no other, and
\* geometry and material of every earlier point cloud are disposed.
C5_SwitchReplacesBuffer ==
  /\ \A c \in 1..Len(clouds) : c # particles => Disposed(c)
  /\ particles # Null =>
       /\ updateCallback # NoCallback
       /\ clouds[particles].posLen = 3 * updateCallback.count
       /\ scene = {particles}
       /\ ~clouds[particles].geometryDisposed
       /\ ~clouds[particles].materialDisposed
  /\ particles = Null => scene = {}

C5_Witness ==
  /\ Len(clouds) = 2
  /\ particles = 2
  /\ clouds[1].posLen # clouds[2].posLen
  /\ scene = {2}

\* C6: at every state, hence at every render, the scene holds at most one
\* point cloud, the manager's current one, with its buffer built and not
\* disposed, and the registered callback belongs to the activation that
\* created it; each render draws exactly that scene.
C6_SwitchAtomicForRender ==
  /\ [](/\ Cardinality(scene) <= 1
        /\ \A c \in scene :
             c = particles /\ clouds[c].posLen > 0
               /\ ~clouds[c].geometryDisposed
        /\ updateCallback # NoCallback =>
             updateCallback.act = particles /\ particles \in scene)
  /\ [][animate =>
          /\ drawn' = scene
          /\ Cardinality(drawn') <= 1
          /\ updateCallback # NoCallback => updateCallback.act \in drawn']_vars

C6_Witness == drawn = {2} /\ particles = 2 /\ updateCallback.act = 2

\* C7: when cleanup() returns, geometry and material of the active point
\* cloud are disposed and the scene no longer holds it.
C7_TeardownDisposesEffect ==
  [][cleanup /\ particles # Null =>
       /\ clouds'[particles].geometryDisposed
       /\ clouds'[particles].materialDisposed
       /\ particles \notin scene']_vars

\* C8: once cleanup() has run no frame is requested or pending, so the
\* callback never runs and nothing is rendered again, the resize listener
\* is gone, and a window resize leaves camera and renderer untouched.
C8_TeardownDetaches ==
  /\ [](rendererDisposed => rafPending = {} /\ ~resizeListener)
  /\ [][rendererDisposed =>
          /\ rafPending' = {}
          /\ lastTick' = lastTick
          /\ drawn' = drawn
          /\ cameraAspect' = cameraAspect
          /\ rendererSize' = rendererSize]_vars

\* after cleanup the window was resized and the camera kept its old aspect
C8_Witness ==
  /\ rendererDisposed
  /\ updateCallback # NoCallback
  /\ windowSize # cameraAspect
  /\ windowSize # rendererSize

\* C9: a tick while no effect is active invokes no callback and changes
\* nothing of the manager; it requests the next frame and renders.
C9_IdleTickIsNoOp ==
  [][animate /\ particles = Null =>
       /\ ~lastTick'.ran
       /\ UNCHANGED <<particles, updateCallback, handStateIsActive,
                      audioContext, isPlayingAudio, audioOpen, timers, scene,
                      clouds, closureVars>>
       /\ animationId' \in rafPending'
       /\ drawn' = scene]_vars

\* a tick without callback ran after a gesture write and after a setEffect
\* call had disposed the only point cloud
C9_Witness ==
  /\ particles = Null
  /\ Len(clouds) = 1
  /\ drawn = {}
  /\ ~lastTick.ran
  /\ lastTick.flag

\* C10: the flag holds the last value written; a tick uses that value and
\* leaves it in place for the next tick; a write changes the flag only.
C10_LastWriteWins ==
  /\ [](handStateIsActive = lastWritten)
  /\ [][animate =>
          /\ lastTick'.flag = lastWritten
          /\ handStateIsActive' = handStateIsActive
          /\ (updateCallback.effect = "CREATIVE_HEART_FIREWORK"
                /\ particles # Null) =>
               <<phase', launchHeight'>>
                 = PhaseStep(phase, launchHeight, lastWritten)
          /\ (updateCallback.effect = "CREATIVE_CAT_CAKE"
                /\ particles # Null) =>
               isCatDetected' = lastWritten]_vars
  /\ [][handStateIsActive' # handStateIsActive =>
          UNCHANGED <<managerVars, closureVars, drawn, lastTick>>]_vars

\* a true was read by a tick, then false was written and not read yet
C10_Witness ==
  /\ lastTick.read
  /\ lastTick.flag
  /\ ~handStateIsActive
  /\ phase = LAUNCH

----------------------------------------------------------------------------
(* Audio cue and effect rebuild, checked under Spec *)

\* a playback is in progress: its context is open and its song has not ended
Sounding == {ctx \in audioOpen : ctx \in timers}

CatTick ==
  /\ animate
  /\ updateCallback.effect = "CREATIVE_CAT_CAKE"
  /\ particles # Null

\* the gesture value the previous tick of the same activation read, false
\* for the first tick of an activation
PreviousRead ==
  IF lastTick.read /\ lastTick.act = updateCallback.act
    THEN lastTick.flag ELSE FALSE

\* C12: under every interleaving of cat-detected edges, effect switches and
\* song-end timeouts at most one playback is in progress at any time.
C12_NoOverlappingPlayback == Cardinality(Sounding) <= 1

\* C13: when setEffect or cleanup returns, every audio context that
\* playBirthdaySong created is closed, the manager references none and the
\* playing flag is false.
C13_SwitchClosesEveryContext ==
  [][SetEffectAny \/ cleanup =>
       audioOpen' = {} /\ audioContext' = Null /\ ~isPlayingAudio']_vars

\* C15: a cat-cake tick calls playBirthdaySong iff it reads the gesture true
\* and the previous tick of the same activation did not (the first tick
\* counting as preceded by false); a call leaves the playing flag set.
C15_SongOnRisingEdgeOnly ==
  [][CatTick =>
       /\ lastTick'.song <=> (handStateIsActive /\ ~PreviousRead)
       /\ lastTick'.song => isPlayingAudio'
       /\ ~lastTick'.song =>
            UNCHANGED <<audioContext, isPlayingAudio, audioOpen, timers>>]_vars

\* the tick after a song call read true again and called nothing
C15_Witness ==
  /\ updateCallback.effect = "CREATIVE_CAT_CAKE"
  /\ lastTick.act = particles
  /\ lastTick.read
  /\ lastTick.flag
  /\ ~lastTick.song
  /\ audioContext # Null
  /\ isPlayingAudio

\* C16: every setEffect call, whatever the type and the count, leaves a new
\* closure (phase IDLE, launch height 0, cat flag false) and, for a
\* recognised type, a point cloud that did not exist before with a callback
\* bound to it; nothing of the previous activation is kept.
C16_SetEffectRebuilds ==
  [][SetEffectAny =>
       /\ phase' = IDLE
       /\ launchHeight' = 0
       /\ isCatDetected' = FALSE
       /\ particles' # Null =>
            /\ particles' \notin 1..Len(clouds)
            /\ ~clouds'[particles'].geometryDisposed
            /\ updateCallback'.act = particles'
       /\ particles # Null =>
            /\ particles' # particles
            /\ clouds'[particles].geometryDisposed
            /\ clouds'[particles].materialDisposed]_vars

\* a second activation in its initial state although the last tick, of the
\* first activation, had read the gesture true
C16_Witness ==
  /\ particles = 2
  /\ lastTick.act = 1
  /\ lastTick.read
  /\ lastTick.flag
  /\ phase = IDLE
  /\ launchHeight = 0
  /\ ~isCatDetected

----------------------------------------------------------------------------
(* Gesture-blended effects, checked under SpecBlend *)

Abs(x) == IF x < 0 THEN -x ELSE x

TextTick ==
  /\ animate
  /\ updateCallback.effect = "CREATIVE_TEXT"
  /\ particles # Null

\* y moved from y0 to y1 toward target by percent of the remaining
\* distance, to the nearest step; it does not move when it is at target
BlendedToward(y0, y1, target, percent) ==
  /\ Abs(100 * (y1 - y0) - percent * (target - y0)) <= 50
  /\ Abs(target - y1) <= Abs(target - y0)
  /\ (target - y0) * (y1 - y0) >= 0
  /\ y0 = target => y1 = target

\* C17: a text-morph tick blends every coordinate toward the text cloud if
\* it reads the gesture true and toward the galaxy if it reads it false, by
\* 0.08 of the remaining distance; a cat-cake tick runs cake mode iff it
\* reads the gesture true, whatever earlier ticks read, and cake mode blends
\* every particle before the flame range toward its cake target by 0.05 of
\* the remaining distance; a coordinate at its target stays there.
C17_BranchFromCurrentGesture ==
  /\ [][TextTick =>
          \A i \in 1..Len(posY) :
            BlendedToward(posY[i], posY'[i],
                          IF handStateIsActive THEN textY[i] ELSE galaxyY[i],
                          8)]_vars
  /\ [][CatTick =>
          /\ isCatDetected' = handStateIsActive
          /\ \A i \in 1..Len(posY) :
               IF handStateIsActive
                 THEN i <= flameStartIndex =>
                        BlendedToward(posY[i], posY'[i], cakeY[i], 5)
                 ELSE posY'[i] < posY[i] \/ posY'[i] = 1000]_vars

\* a text-morph tick that read the gesture true has left the particle on
\* its way from the galaxy to the text cloud
C17_Witness ==
  /\ updateCallback.effect = "CREATIVE_TEXT"
  /\ lastTick.read
  /\ lastTick.flag
  /\ Len(posY) = 1
  /\ posY[1] # galaxyY[1]
  /\ Abs(textY[1] - posY[1]) < Abs(textY[1] - galaxyY[1])
  /\ Abs(textY[1] - posY[1]) > 10

----------------------------------------------------------------------------
(* Rain, checked under FairRain *)

RainTick ==
  /\ animate
  /\ particles # Null
  /\ \/ updateCallback.effect = "RAIN"
     \/ updateCallback.effect = "CREATIVE_CAT_CAKE" /\ ~handStateIsActive

\* C19: a rain tick (of the rain effect or of the rain mode of the cat-cake
\* effect) that takes a particle below -100 puts it at 100 in the same
\* tick and any other rain tick lowers it; y stays within [-100, 100] after
\* every tick; a frame is always pending; and every particle of the rain
\* effect wraps infinitely often, as does every particle of the cat-cake
\* effect unless the gesture keeps coming back.
C19_RainWrapsForever ==
  /\ [][RainTick =>
          \A i \in 1..Len(posY) :
            /\ posY[i] - Fall(velocities[i], speed) < -1000 =>
                 posY'[i] = 1000 /\ i \in respawned'
            /\ posY[i] - Fall(velocities[i], speed) >= -1000 =>
                 /\ posY'[i] = posY[i] - Fall(velocities[i], speed)
                 /\ posY'[i] < posY[i]
                 /\ i \notin respawned']_vars
  /\ [](updateCallback.effect \in {"RAIN", "CREATIVE_CAT_CAKE"} =>
          \A i \in 1..Len(posY) : posY[i] >= -1000 /\ posY[i] <= 1000)
  /\ [](particles # Null => animationId \in rafPending)
  /\ []<>(updateCallback.effect = "RAIN" => 1 \in respawned)
  /\ []<>(updateCallback.effect = "CREATIVE_CAT_CAKE" =>
            handStateIsActive \/ lastTick.flag \/ 1 \in respawned)

\* the slowest rain particle has just wrapped to the upper bound
C19_Witness ==
  /\ updateCallback.effect = "RAIN"
  /\ speed = 1
  /\ lastTick.ran
  /\ respawned = {1}
  /\ posY[1] = 1000

----------------------------------------------------------------------------
(* The smoothing update, checked under SpecSmooth *)

\* one application never moves current past the target, never increases
\* the distance to it, and leaves a value at the target where it is
SmoothStepSafe ==
  /\ (sample.target - sample.current) * (sample.target - sample'.current) >= 0
  /\ Abs(sample.target - sample'.current) <= Abs(sample.target - sample.current)
  /\ sample.current = sample.target => sample'.current = sample.target

\* C18 as stated: no overshoot, no increase of the distance, the target is
\* a fixed point, and repeated application comes within any positive
\* tolerance of the target, so that an application which leaves current
\* where it is finds it at the target.
C18_SmoothingConverges ==
  [][smoothStep =>
       /\ SmoothStepSafe
       /\ sample'.current = sample.current =>
            sample.current = sample.target]_vars

\* C18 amended: no overshoot, no increase of the distance, the target is a
\* fixed point; an application that changes current strictly decreases the
\* distance, and one that leaves it unchanged finds the remaining distance
\* times the rate at most half a step of the stored values.
C18_SmoothingSettles ==
  [][smoothStep =>
       /\ SmoothStepSafe
       /\ sample'.current # sample.current =>
            Abs(sample.target - sample'.current)
              < Abs(sample.target - sample.current)
       /\ sample'.current = sample.current =>
            2 * sample.percent * Abs(sample.target - sample.current)
              <= 100]_vars

\* an application at rate 0.08 left the value where it was, off the target
C18_Witness ==
  /\ outcome.applied
  /\ sample.percent = 8
  /\ outcome.previous = sample.current
  /\ sample.current # sample.target
  /\ Abs(sample.target - sample.current) > 1

----------------------------------------------------------------------------
(* Finger classification, checked under SpecFinger *)

\* the finger whose tip is tip is curled: its distance to the wrist is
\* strictly less than 1.2 = 6/5 of the wrist-to-knuckle distance
Curled(tip) ==
  25 * DistSq(tip, sample.hand.wrist)
    < 36 * DistSq(sample.hand.knuckle, sample.hand.wrist)

\* the tip is further from the wrist than twice the hand size
Extended(tip) ==
  DistSq(tip, sample.hand.wrist)
    > 4 * DistSq(sample.hand.knuckle, sample.hand.wrist)

\* C20: the value written for a frame is true for the fist effect iff a
\* hand is detected and index, middle, ring and little finger are curled,
\* and for the text effect iff a hand is detected, index and middle finger
\* are not curled and ring and little finger are; all tips on the wrist
\* give true and all tips beyond twice the hand size give false for the
\* fist effect; a frame without a hand gives false.
C20_FingerClassification ==
  outcome.applied =>
    LET h == sample.hand
    IN  /\ sample.effect = "CREATIVE_HEART_FIREWORK" =>
             (outcome.value <=>
                /\ h.present
                /\ Curled(h.index) /\ Curled(h.middle)
                /\ Curled(h.ring) /\ Curled(h.pinky))
        /\ sample.effect = "CREATIVE_TEXT" =>
             (outcome.value <=>
                /\ h.present
                /\ ~Curled(h.index) /\ ~Curled(h.middle)
                /\ Curled(h.ring) /\ Curled(h.pinky))
        /\ (/\ sample.effect = "CREATIVE_HEART_FIREWORK"
            /\ h.present
            /\ \A tip \in {h.index, h.middle, h.ring, h.pinky} :
                 tip = h.wrist) => outcome.value
        /\ (/\ sample.effect = "CREATIVE_HEART_FIREWORK"
            /\ \A tip \in {h.index, h.middle, h.ring, h.pinky} :
                 Extended(tip)) => ~outcome.value
        /\ ~h.present => ~outcome.value

\* the text gesture recognised with the index tip at exactly 1.2 hand sizes
C20_Witness ==
  /\ outcome.applied
  /\ outcome.value
  /\ sample.effect = "CREATIVE_TEXT"
  /\ 25 * DistSq(sample.hand.index, sample.hand.wrist)
       = 36 * DistSq(sample.hand.knuckle, sample.hand.wrist)

----------------------------------------------------------------------------
(* Writers of the gesture signal, checked under SpecControls *)

RECURSIVE FrameChains(_)
\* number of predictWebcam frame chains alive: frames requested by the
\* first n runs of the hook and neither run nor cancelled
FrameChains(n) == IF n = 0 THEN 0 ELSE hooks[n].frames + FrameChains(n - 1)

\* C11: at any time at most one predictWebcam chain is running, and only
\* the run of the hook made for the current effect writes the gesture
\* signal: no run cleaned up by an effect switch writes it again, not even
\* when the video element fires loadeddata for the stream of the new run.
C11_SingleDetectionLoop ==
  /\ FrameChains(Len(hooks)) <= 1
  /\ \A g \in writers : hooks[g].isMounted

\* C14: once the vision setup of the current effect has failed (model load
\* failure or camera permission denied), every tick of that effect that
\* reads the gesture signal reads false.
C14_FailedSetupReadsFalse ==
  [][(/\ animate
      /\ hooks # <<>>
      /\ hooks[Len(hooks)].stage \in {"modelFailed", "cameraDenied"}
      /\ ReadsGesture(updateCallback, particles))
       => ~handStateIsActive]_vars

----------------------------------------------------------------------------
(* Heart-firework phase and gesture, checked under SpecFirework *)

\* C30: a heart-firework tick ends in LAUNCH or EXPLODE only if it read the
\* gesture true and ends in IDLE if it read it false; the EXPLODE branch,
\* which holds the respawn check, therefore runs only in ticks that read
\* the gesture true, and only such ticks respawn a particle.
C30_PhaseFollowsGesture ==
  /\ [][HeartTick =>
          /\ phase' \in {LAUNCH, EXPLODE} => handStateIsActive
          /\ ~handStateIsActive => phase' = IDLE
          /\ (phase = EXPLODE /\ phase' = EXPLODE) => handStateIsActive
          /\ respawned' # {} => handStateIsActive]_vars
  /\ [](lastTick.read /\ phase # IDLE => lastTick.flag)

\* an EXPLODE tick evaluated the respawn check and respawned the particle
C30_Witness ==
  /\ phase = EXPLODE
  /\ lastTick.read
  /\ lastTick.flag
  /\ respawned = {1}

----------------------------------------------------------------------------
(* The gesture flag across effect switches, checked under Spec *)

\* C29: setEffect and cleanup leave the gesture flag as it is, and a tick
\* that reads the flag reads the value updateHandState wrote last, also
\* when that write was made under an earlier effect; the first tick of a
\* new activation takes the gesture-active branch if the flag was true at
\* the switch.
C29_SwitchKeepsGestureFlag ==
  /\ [][SetEffectAny \/ cleanup =>
          /\ handStateIsActive' = handStateIsActive
          /\ lastWritten' = lastWritten]_vars
  /\ [][animate /\ ReadsGesture(updateCallback, particles) =>
          lastTick'.flag = lastWritten]_vars
  /\ [][CatTick /\ lastTick.act # particles =>
          isCatDetected' = lastWritten]_vars

\* the first tick of the second activation, a cat-cake effect, read true
\* and went to cake mode
C29_Witness ==
  /\ particles = 2
  /\ updateCallback.effect = "CREATIVE_CAT_CAKE"
  /\ lastTick.act = 2
  /\ lastTick.song
  /\ isCatDetected
  /\ lastWritten

----------------------------------------------------------------------------
(* Repeated teardown, checked under Spec *)

\* the manager is as a cleanup call leaves it
TornDown ==
  /\ ~resizeListener
  /\ rendererDisposed
  /\ ~canvasInContainer
  /\ animationId \notin rafPending
  /\ audioContext = Null
  /\ ~isPlayingAudio

\* C25: cleanup can be called in every state, also a second time and with
\* the canvas no longer inside the container, without an error; a call on
\* a manager that is already torn down changes nothing, and any later call
\* changes at most the audio state.
C25_TeardownIdempotent ==
  /\ [](ENABLED cleanup)
  /\ [][cleanup /\ TornDown => UNCHANGED vars]_vars
  /\ [][cleanup /\ rendererDisposed =>
          UNCHANGED <<scene, particles, updateCallback, clouds, hostVars,
                      animationId, rafPending, closureVars, frameVars>>]_vars
  /\ [][cleanup => TornDown']_vars

\* torn down with an effect still registered: a state in which a second
\* cleanup call finds the canvas outside the container
C25_Witness ==
  /\ TornDown
  /\ particles # Null
  /\ lastTick.ran

----------------------------------------------------------------------------
(* The candle flame, checked under SpecBlend *)

\* a tick of the cat-cake effect in cake mode
CakeTick == CatTick /\ handStateIsActive

\* the flame particles the last tick reset
PlacedSet == {p.i : p \in placed}

\* C28: in a cake-mode tick a flame particle above 28 is reset; a reset
\* puts the particle at y = 20 on a disc of radius at most 2 with the
\* colour yellow and the particle then rises to 20.2; a flame particle
\* that is not reset rises by 0.2, whatever its precomputed target; after
\* the tick every flame particle is at 28.2 or below; no particle before
\* flameStartIndex is reset.
C28_FlameResetAndCeiling ==
  [][CakeTick =>
       /\ PlacedSet' \subseteq flameStartIndex + 1..Len(posY)
       /\ \A p \in placed' :
            /\ p.at.y = 200
            /\ p.at.x * p.at.x + p.at.z * p.at.z <= 20 * 20
            /\ p.at.col = <<1, 1, 0>>
            /\ posY'[p.i] = 202
       /\ \A i \in flameStartIndex + 1..Len(posY) :
            /\ posY[i] > 280 => i \in PlacedSet'
            /\ i \notin PlacedSet' => posY'[i] = posY[i] + 2
            /\ posY'[i] <= 282]_vars

\* a cake-mode tick has reset the flame particle to a point off the axis
\* of the disc and raised it to 20.2
C28_Witness ==
  /\ updateCallback.effect = "CREATIVE_CAT_CAKE"
  /\ lastTick.read
  /\ lastTick.flag
  /\ flameStartIndex = 0
  /\ \E p \in placed : p.i = 1 /\ p.at.x # 0
  /\ posY[1] = 202
  /\ cakeY[1] = -175

\* a flame particle has risen from the candle top to the ceiling
FlameAtCeiling ==
  /\ updateCallback.effect = "CREATIVE_CAT_CAKE"
  /\ flameStartIndex = 0
  /\ lastTick.flag
  /\ Len(posY) = 1
  /\ posY[1] = 282

----------------------------------------------------------------------------
(* The target clouds, checked under SpecTargets *)

\* the candidates of the drawn raster: the scanned pixels brighter than 100
Candidates == ValidPoints(sample.bright, 1)

\* the particles the returned array holds in full
Held == 0..(Len(outcome.positions) \div 3) - 1

\* particle i of the returned array lies in the jitter box of the point
NearPoint(i, point) ==
  /\ Abs(outcome.positions[3 * i + 1] - point.x) <= 25
  /\ Abs(outcome.positions[3 * i + 2] - point.y) <= 25
  /\ Abs(outcome.positions[3 * i + 3]) <= 100

\* C27: with at least one candidate, particle i lies in the jitter box of
\* candidate i mod k, for every particle of the returned array; every
\* candidate is used at least once when there are at least k particles.
C27_CyclicSampling ==
  (outcome.applied /\ sample.ctx /\ Len(Candidates) >= 1) =>
    LET k == Len(Candidates)
    IN  /\ ~sample.cake => Held = 0..sample.count - 1
        /\ \A i \in Held : NearPoint(i, Candidates[(i % k) + 1])
        /\ Cardinality(Held) >= k =>
             \A c \in 1..k : \E i \in Held : NearPoint(i, Candidates[c])

\* three candidates, more particles than candidates, and a draw that is
\* not zero
C27_Witness ==
  /\ outcome.applied
  /\ sample.ctx
  /\ ~sample.cake
  /\ Len(Candidates) = 3
  /\ sample.count = 7
  /\ sample.seed[1][1] = 24
  /\ outcome.positions[3 * 4 + 1] = Candidates[2].x + 24

\* C21: a raster without a bright pixel gives an array of 3 * count numbers,
\* every particle at the origin plus its jitter (x and y within 0.25, z
\* within 1); the text band of the cake target built from it holds numbers
\* only, each 40 below such a point.
C21_RasterFallback ==
  (outcome.applied /\ sample.ctx /\ Len(Candidates) = 0) =>
    /\ ~sample.cake => Len(outcome.positions) = 3 * sample.count
    /\ sample.cake => 4 * Len(outcome.positions) <= 3 * sample.count
    /\ sample.cake => 4 * (Len(outcome.positions) + 1) > 3 * sample.count
    /\ \A j \in 1..Len(outcome.positions) : outcome.positions[j] # NaN
    /\ \A i \in Held : NearPoint(i, [x |-> 0, y |-> 0])
    /\ \A i \in 1..Len(outcome.text) :
         /\ Abs(outcome.text[i].x) <= 25
         /\ Abs(outcome.text[i].y + 4000) <= 25
         /\ Abs(outcome.text[i].z) <= 100

\* a cake target with four text particles built from a dark raster
C21_Witness ==
  /\ outcome.applied
  /\ sample.ctx
  /\ sample.cake
  /\ Len(Candidates) = 0
  /\ Len(outcome.text) = 4
  /\ outcome.text[2].y = -4025
  /\ outcome.text[1].z = 99

\* C22: without a raster context the result is an array of 3 * count zeros,
\* the activation goes on and ends with the point cloud in the scene and
\* the callback registered.
C22_MissingContext ==
  /\ [](outcome.applied /\ ~sample.ctx =>
          /\ ~sample.cake => Len(outcome.positions) = 3 * sample.count
          /\ sample.cake => Len(outcome.positions) = (3 * sample.count) \div 4
          /\ \A j \in 1..Len(outcome.positions) : outcome.positions[j] = 0
          /\ clouds = <<>> => ENABLED mountTargets)
  /\ [][mountTargets /\ ~sample.ctx =>
          /\ particles' # Null
          /\ particles' \in scene'
          /\ clouds'[particles'].posLen = 3 * sample.count
          /\ updateCallback'.effect =
               (IF sample.cake THEN "CREATIVE_CAT_CAKE" ELSE "CREATIVE_TEXT")
          /\ ~sample.cake => textY' = <<0>>]_vars

\* the text morph activated after the raster context was refused
C22_Witness ==
  /\ outcome.applied
  /\ ~sample.ctx
  /\ ~sample.cake
  /\ sample.count = 3
  /\ Len(outcome.positions) = 9
  /\ particles \in scene
  /\ updateCallback.effect = "CREATIVE_TEXT"
  /\ textY = <<0>>

\* C26: the bands of the cake target have floor(0.4 count),
\* floor(0.3 count), floor(0.05 count) and floor(0.2 count) particles, lie
\* one after the other from index 0 and end at flameStartIndex, which is
\* at most count; every index below flameStartIndex is written by exactly
\* one band, every index from flameStartIndex on by none.
C26_BandPartition ==
  (outcome.applied /\ sample.cake) =>
    LET count == sample.count
        top == (4 * count) \div 10
        candle == top + (3 * count) \div 10
        text == candle + (5 * count) \div 100
        flame == text + (2 * count) \div 10
    IN  /\ outcome.flameStart = flame
        /\ flame <= count
        /\ DOMAIN outcome.bands = 0..count - 1
        /\ \A i \in 0..count - 1 :
             outcome.bands[i] =
               IF i < top THEN {"base"}
               ELSE IF i < candle THEN {"top"}
               ELSE IF i < text THEN {"candle"}
               ELSE IF i < flame THEN {"text"}
               ELSE {}

\* a count at which every band and the flame range hold a particle
C26_Witness ==
  /\ outcome.applied
  /\ sample.cake
  /\ sample.count = 20
  /\ outcome.flameStart = 19
  /\ outcome.bands[14] = {"candle"}
  /\ outcome.bands[19] = {}

----------------------------------------------------------------------------
(* The kinetic effects, checked under SpecKinetic *)

\* C24: two runs of a kinetic effect (galaxy, wave, rain, sphere) from the
\* same buffer and configuration and with the same tick times, each with
\* its own sequence of gesture writes, agree on the particle heights, the
\* rotation and the scale after every tick.
C24_KineticIgnoresGesture ==
  /\ [](twin.live => twin.posY = posY /\ twin.pose = pose)
  /\ [][twinTick => twin'.posY = posY' /\ twin'.pose = pose']_vars

\* both runs have ticked, with different gesture flags, and the tick has
\* moved the cloud
C24_Witness ==
  /\ twin.live
  /\ lastTick.ran
  /\ twin.flag # handStateIsActive
  /\ twin.flag # lastTick.flag
  /\ \/ updateCallback.effect = "SPHERE" /\ pose.scale # 10000
     \/ updateCallback.effect = "WAVE" /\ posY # <<0>>

----------------------------------------------------------------------------
(* The layout of the particle buffers, checked under Spec *)

\* C23: the position array of the registered effect has 3 * count
\* elements, its colour array 3 * count where the effect colours each
\* particle, its velocities count; a tick changes the length of no array,
\* and every element it assigns lies inside the position array and
\* belongs to the particle of the loop index.
C23_BufferLayout ==
  /\ [](particles # Null =>
          LET count == updateCallback.count
              arrays == Buffers(updateCallback.effect, count)
          IN  /\ count >= 1
              /\ updateCallback.act = particles
              /\ clouds[particles].posLen = 3 * count
              /\ arrays.position = 3 * count
              /\ updateCallback.effect \in GestureEffects \cup {"GALAXY"} =>
                   arrays.color = 3 * count
              /\ updateCallback.effect \in {"RAIN", "CREATIVE_CAT_CAKE"} =>
                   arrays.velocities = count)
  /\ [][animate => clouds' = clouds /\ updateCallback' = updateCallback]_vars
  /\ [][animate /\ particles # Null =>
          \A w \in written' :
            /\ w[2] \in 0..clouds[particles].posLen - 1
            /\ w[1] \in 0..updateCallback.count - 1
            /\ w[2] \div 3 = w[1]]_vars

\* a tick of the cat-cake effect with two particles has assigned the last
\* element of the position array
C23_Witness ==
  /\ particles # Null
  /\ updateCallback.effect = "CREATIVE_CAT_CAKE"
  /\ updateCallback.count = 2
  /\ lastTick.act = particles
  /\ <<1, 5>> \in written
  /\ Cardinality(written) = 6

----------------------------------------------------------------------------
(* The launch accumulator of the heart firework, checked under SpecFirework *)

\* C31: the launch height is a multiple of 1.5 between 0 and 61.5; it
\* changes only in a tick that reads the gesture true outside EXPLODE,
\* where it is raised by 1.5, from 0 when the tick leaves IDLE; the phase
\* is EXPLODE only with the launch height at 61.5.
C31_LaunchAccumulator ==
  /\ [](launchHeight \in {3 * n : n \in 0..41})
  /\ [](phase = EXPLODE => launchHeight = 123)
  /\ [][launchHeight' # launchHeight =>
          /\ HeartTick
          /\ handStateIsActive
          /\ phase # EXPLODE
          /\ phase' \in {LAUNCH, EXPLODE}
          /\ launchHeight' = (IF phase = IDLE THEN 0 ELSE launchHeight) + 3]_vars
  /\ [][HeartTick /\ handStateIsActive /\ phase # EXPLODE =>
          launchHeight' = (IF phase = IDLE THEN 0 ELSE launchHeight) + 3]_vars

\* a launch begun again after a release in EXPLODE: the height was 61.5,
\* the first tick of the new launch has put it at 1.5
C31_Witness ==
  /\ phase = LAUNCH
  /\ launchHeight = 3
  /\ lastTick.flag
  /\ streak = 1
  /\ \E i \in 1..Len(posY) : posY[i] < -30

----------------------------------------------------------------------------
(* Consistency of the manager, checked under Spec *)

\* setEffect called with one of the effect types of the switch
RecognisedSwitch ==
  /\ \E type \in EffectTypes, count \in 1..MaxCount :
       setEffect(type, count, 0, DefaultSpeed)
  /\ UNCHANGED controlsVars

\* C32: a setEffect call with a recognised type leaves a point cloud and
\* a callback, the cloud a new one in the scene; in every state a
\* registered callback implies a point cloud, and the callback was built
\* by the activation that built the manager's point cloud, which is the
\* cloud every tick acts on.
C32_ManagerConsistency ==
  /\ [][RecognisedSwitch =>
          /\ particles' # Null
          /\ particles' \notin DOMAIN clouds
          /\ particles' \in scene'
          /\ updateCallback' # NoCallback
          /\ updateCallback'.act = particles']_vars
  /\ [](updateCallback # NoCallback =>
          particles # Null /\ updateCallback.act = particles)
  /\ [][animate /\ updateCallback # NoCallback =>
          lastTick'.act = particles /\ particles' = particles]_vars

\* the callback of the second activation has run on the second cloud
C32_Witness ==
  /\ Len(clouds) = 2
  /\ particles = 2
  /\ updateCallback.act = 2
  /\ lastTick.ran
  /\ lastTick.act = 2
  /\ Disposed(1)

----------------------------------------------------------------------------
(* Detectors across effect switches, checked under SpecControls *)

\* the stages in which setupVision of a run has nothing left to create
SetupOver ==
  {"returned", "camera", "noCamera", "ready", "cameraDenied", "modelFailed"}

\* the detector a predictWebcam call detects with: the hand branch comes
\* first
UsedDetector ==
  IF handLandmarkerRef # Null THEN handLandmarkerRef ELSE objectDetectorRef

\* C33: once setupVision of the latest run of the hook is over, a hand
\* landmarker is held only for the text morph and the firework and an
\* object detector only for the cat-cake effect, also when the setup of an
\* earlier run ends after the switch; a predictWebcam call that writes the
\* signal detects with a detector the latest run created.
C33_DetectorOfLatestSetup ==
  hooks # <<>> =>
    /\ hooks[Len(hooks)].stage \in SetupOver =>
         /\ handLandmarkerRef # Null => IsHand(activeEffect)
         /\ objectDetectorRef # Null => IsObject(activeEffect)
    /\ writers # {} => UsedDetector \in {Null, Len(hooks)}

----------------------------------------------------------------------------
(* The playing flag and the audio context, checked under Spec *)

\* C35: the playing flag is set only while the manager references an open
\* audio context; a playBirthdaySong call that creates no context leaves
\* the flag clear.
C35_PlayingHasContext ==
  isPlayingAudio => audioContext # Null /\ audioContext \in audioOpen

----------------------------------------------------------------------------
(* The frame of updateHandState, checked under Spec *)

\* the effect state, the audio state and the particle data of the manager
EffectState ==
  <<phase, launchHeight, isCatDetected, audioContext, isPlayingAudio,
    audioOpen, timers, posY, velY, pose, particles, clouds, updateCallback,
    scene>>

\* updateHandState assigns the gesture flag and nothing else
HandStateWritesFlagOnly ==
  [][UpdateHandStateAny =>
       /\ handStateIsActive' = lastWritten'
       /\ UNCHANGED EffectState
       /\ UNCHANGED <<closureVars, hostVars, animationId, rafPending,
                      drawn>>]_vars

\* C34 as stated: updateHandState assigns the gesture flag and nothing
\* else; phase, launch height, cat-detected flag, audio state and particle
\* data change only in a tick, in a setEffect call or when a song timer
\* expires.
C34_HandStateFrame ==
  /\ HandStateWritesFlagOnly
  /\ [][EffectState' # EffectState =>
          animate \/ SetEffectAny \/ SongTimeoutAny]_vars

\* C34 amended: updateHandState assigns the gesture flag and nothing else;
\* phase, launch height, cat-detected flag, audio state and particle data
\* change only in a tick, in a setEffect call, when a song timer expires or
\* in cleanup, which stops the audio.
C34_HandStateFrameWithTeardown ==
  /\ HandStateWritesFlagOnly
  /\ [][EffectState' # EffectState =>
          animate \/ SetEffectAny \/ SongTimeoutAny \/ cleanup]_vars
  /\ [][cleanup =>
          UNCHANGED <<phase, launchHeight, isCatDetected, posY, velY, pose,
                      particles, clouds, updateCallback, scene>>]_vars

\* the gesture was released after a tick that detected the cat: the song
\* plays on and the cat-detected flag is still set
C34_Witness ==
  /\ updateCallback.effect = "CREATIVE_CAT_CAKE"
  /\ isCatDetected
  /\ isPlayingAudio
  /\ ~handStateIsActive
  /\ ~lastWritten
  /\ lastTick.flag

----------------------------------------------------------------------------
(* The colour of the flame, checked under SpecFlame *)

\* C36: after any sequence of rain-mode and cake-mode ticks every colour
\* component of a flame particle lies within [0, 1].
C36_FlameColourInRange == \A j \in 1..3 : sample.col[j] \in 0..100

----------------------------------------------------------------------------
(* The coordinates the wave and the rain leave alone, checked under        *)
(* SpecPlace                                                                *)

\* C37: a tick of the wave or of the rain effect changes only y: after any
\* number of ticks x and z of a particle are the values at activation, and
\* a rain wrap puts y at 100 and nothing else; a wrap in the rain mode of
\* the cat-cake effect puts y at 100 and x and z at newly drawn values.
C37_OnlyHeightMoves ==
  /\ [](sample.effect \in {"WAVE", "RAIN"} =>
          /\ sample.p.x = sample.start.x
          /\ sample.p.z = sample.start.z)
  /\ [][sample.effect \in {"WAVE", "RAIN"} =>
          /\ sample'.p.x = sample.p.x
          /\ sample'.p.z = sample.p.z]_vars
  /\ [](outcome.wrapped => sample.p.y = RainUpper)
  /\ [](sample.effect = "CREATIVE_CAT_CAKE" /\ outcome.wrapped =>
          /\ sample.p.x = outcome.draw[1]
          /\ sample.p.z = outcome.draw[2])

\* a rain particle has wrapped: it is at y = 100 with the x and z of its
\* activation
C37_Witness ==
  /\ sample.effect = "RAIN"
  /\ outcome.wrapped
  /\ sample.p = [sample.start EXCEPT !.y = RainUpper]
  /\ sample.start.y = 3

====
